---------------------------- MODULE Spec2Model ----------------------------
(***************************************************************************)
(* CaptionCraft AI (Adobe Express add-on): the two-stage AI pipeline.      *)
(*                                                                         *)
(*   Content Normalizer   src/src/services/geminiService.ts                *)
(*   Caption Generator    src/unnamed/part_001   (the GPT service)         *)
(*   Caller (App)         src/unnamed/part_000   (the React component)     *)
(*                                                                         *)
(* Strings are sequences of one-character strings; a PDF is a sequence of  *)
(* byte values and the text extracted from it a sequence of char codes.    *)
(* A model response is a sequence of lexical tokens (fence, "json" tag,    *)
(* whitespace, prose, braces, "key": value members, bare literals), on     *)
(* which the fence regex, the brace regex and JSON.parse are computed.     *)
(***************************************************************************)
EXTENDS Integers, Sequences, FiniteSets, TLC

VARIABLES
    \* ---- analyzeContent (one call of the normalizer) ----
    nPc,          \* "idle" | "awaitGemini" | "done"
    nInput,       \* the `input` argument (a string or a File)
    nInputType,   \* the `inputType` argument
    nContent,     \* the text put into the summarization prompt
    nRequests,    \* outbound requests issued by this call, in order
    nResponse,    \* what the summarization endpoint answered
    nOutcome,     \* what the call returned or threw
    \* ---- generateCaptions / regenerateSingleCaption (one call) ----
    gPc,          \* "idle" | "awaitGPT" | "done"
    gOp,          \* "generate" | "regenerate"
    gRequests,    \* outbound requests issued by this call, in order
    gResponse,    \* what the generation endpoint answered
    gNow,         \* Date.now() when the result was built
    gOutcome,     \* what the call returned or threw
    \* ---- App: the React state of the panel ----
    inputSource,  \* "text" | "pdf" | "image"
    textInput,    \* the textarea
    uploadedFile, \* the File held, or NoFile
    geminiKey,    \* "" until entered
    openaiKey,    \* "" until entered
    isLoading,
    loadingStep,
    captions,     \* CaptionResult[]
    error,        \* "" for null
    summary,      \* ContentSummary, or NoSummary for null
    \* ---- App: handlers suspended at an await, and the clock ----
    run,          \* the handleGenerate call in flight
    regens,       \* the handleRegenerate calls in flight, oldest first
    clock,        \* Date.now()
    clicks,       \* runs and regenerations started so far
    \* ---- createFallbackSummary (one call) ----
    fbPc,         \* "idle" | "done"
    fbText,       \* the `text` argument
    fbResult      \* the ContentSummary returned

genVars == <<gPc, gOp, gRequests, gResponse, gNow, gOutcome>>

normVars == <<nPc, nInput, nInputType, nContent, nRequests, nResponse, nOutcome>>

appVars ==
    <<inputSource, textInput, uploadedFile, geminiKey, openaiKey, isLoading,
      loadingStep, captions, error, summary, run, regens, clock, clicks>>

fbVars == <<fbPc, fbText, fbResult>>

vars == <<normVars, genVars, appVars, fbVars>>

(***************************************************************************)
(* Bounds of the model.                                                    *)
(***************************************************************************)
MaxBody == 11        \* non-blank characters of a text input
MaxPad == 1          \* blanks before and after the body of a text input
MaxPdfRun == 50      \* longest run of equal bytes in a PDF byte stream
MaxBullets == 6      \* bulletPoints entries in a model response
MaxKeywords == 11    \* keywords entries in a model response
MaxCaptions == 4     \* entries of the captions array in a model response
MaxTagLen == 3       \* characters of a hashtag in a model response
MaxClock == 1        \* values Date.now() takes, counted from 0
MaxRaw == 201        \* characters of a response that is no JSON
MaxSentences == 4    \* pieces a text given to createFallbackSummary is made of

(***************************************************************************)
(* Program constants.                                                      *)
(***************************************************************************)
MIN_TEXT_LENGTH == 10        \* input.trim().length < 10
PRINTABLE_LO == 32           \* byte >= 32
PRINTABLE_HI == 126          \* byte <= 126
MIN_RUN_EXCLUSIVE == 3       \* currentString.length > 3
MIN_PDF_TEXT == 50           \* text.length < 50
MAX_PDF_TEXT == 3000         \* text.substring(0, 3000)
MAX_BULLET_POINTS == 5       \* parsed.bulletPoints.slice(0, 5)
MAX_KEYWORDS == 10           \* parsed.keywords.slice(0, 10)
MAIN_IDEA_FALLBACK == 100    \* response.substring(0, 100)
BULLET_FALLBACK == 200       \* response.substring(0, 200)

(***************************************************************************)
(* Sequence helpers.                                                       *)
(***************************************************************************)
Min(a, b) == IF a < b THEN a ELSE b

\* Array.prototype.slice(0, n) and String.prototype.substring(0, n)
Slice0(s, n) == SubSeq(s, 1, Min(Len(s), n))

Rep(x, n) == [i \in 1..n |-> x]

RECURSIVE Flatten(_)
Flatten(ss) == IF ss = <<>> THEN <<>> ELSE Head(ss) \o Flatten(Tail(ss))

SeqsUpTo(S, n) == UNION {[1..k -> S] : k \in 0..n}

(***************************************************************************)
(* String.prototype.trim on a string of one-character strings.             *)
(***************************************************************************)
\* \s: the blank stands for every white-space character
IsBlank(c) == c = " "

SetMin(S) == CHOOSE x \in S : \A y \in S : x <= y
SetMax(S) == CHOOSE x \in S : \A y \in S : x >= y

Trim(s) ==
    LET inked == {i \in 1..Len(s) : ~IsBlank(s[i])}
    IN  IF inked = {} THEN <<>> ELSE SubSeq(s, SetMin(inked), SetMax(inked))

(***************************************************************************)
(* extractTextFromPDF: the byte-level heuristic.                           *)
(***************************************************************************)
\* the backquote character (the lexer of TLA+ has no literal for it)
BACKQUOTE == "bq"

\* the printable ASCII characters, codes 32 to 126 in order
PrintableChars ==
    <<
      " ", "!", "\"", "#", "$", "%", "&", "'", "(", ")", "*", "+",
      ",", "-", ".", "/", "0", "1", "2", "3", "4", "5", "6", "7",
      "8", "9", ":", ";", "<", "=", ">", "?", "@", "A", "B", "C",
      "D", "E", "F", "G", "H", "I", "J", "K", "L", "M", "N", "O",
      "P", "Q", "R", "S", "T", "U", "V", "W", "X", "Y", "Z", "[",
      "\\", "]", "^", "_", BACKQUOTE, "a", "b", "c", "d", "e", "f", "g",
      "h", "i", "j", "k", "l", "m", "n", "o", "p", "q", "r", "s",
      "t", "u", "v", "w", "x", "y", "z", "{", "|", "}", "~"
    >>

IsPrintable(byte) == byte >= PRINTABLE_LO /\ byte <= PRINTABLE_HI

\* String.fromCharCode(byte), for a printable byte
FromCharCode(byte) == PrintableChars[byte - PRINTABLE_LO + 1]

\* one iteration of the loop over uint8Array, lines 75-85
ScanStep(st, byte) ==
    IF IsPrintable(byte)
    THEN [text |-> st.text,
          currentString |-> Append(st.currentString, FromCharCode(byte))]
    ELSE IF Len(st.currentString) > MIN_RUN_EXCLUSIVE
    THEN [text |-> st.text \o st.currentString \o <<" ">>, currentString |-> <<>>]
    ELSE [text |-> st.text, currentString |-> <<>>]

\* the iterations for bytes lo..hi in order, from the loop state st
RECURSIVE ScanRange(_, _, _, _)
ScanRange(bytes, lo, hi, st) ==
    IF lo > hi THEN st
    ELSE IF lo = hi THEN ScanStep(st, bytes[lo])
    ELSE LET mid == (lo + hi) \div 2
             left == ScanRange(bytes, lo, mid, st)
         IN  \* the test makes TLC evaluate the left half first
             IF Len(left.text) >= 0 THEN ScanRange(bytes, mid + 1, hi, left)
             ELSE left

\* lines 71-86: `text` when the loop ends
ScanBytes(bytes) ==
    ScanRange(bytes, 1, Len(bytes), [text |-> <<>>, currentString |-> <<>>]).text

\* .replace(/\s+/g, ' '): of a run of blanks the last one stays
RECURSIVE CollapseRange(_, _, _)
CollapseRange(s, lo, hi) ==
    IF lo > hi THEN <<>>
    ELSE IF lo = hi
         THEN IF IsBlank(s[lo]) /\ lo < Len(s) /\ IsBlank(s[lo + 1])
              THEN <<>> ELSE <<s[lo]>>
    ELSE LET mid == (lo + hi) \div 2
         IN  CollapseRange(s, lo, mid) \o CollapseRange(s, mid + 1, hi)

CollapseSpaces(s) == CollapseRange(s, 1, Len(s))

\* the class \w
WordChars ==
    {
     "0", "1", "2", "3", "4", "5", "6", "7", "8", "9", "A", "B", "C",
     "D", "E", "F", "G", "H", "I", "J", "K", "L", "M", "N", "O", "P",
     "Q", "R", "S", "T", "U", "V", "W", "X", "Y", "Z", "a", "b", "c",
     "d", "e", "f", "g", "h", "i", "j", "k", "l", "m", "n", "o", "p",
     "q", "r", "s", "t", "u", "v", "w", "x", "y", "z", "_"
    }

\* the class [\w\s.,!?;:'"()-]
IsSafeChar(c) ==
    \/ c \in WordChars
    \/ IsBlank(c)
    \/ c \in {".", ",", "!", "?", ";", ":", "'", "\"", "(", ")", "-"}

\* .replace(/[^\w\s.,!?;:'"()-]/g, '')
StripUnsafe(s) == SelectSeq(s, IsSafeChar)

\* lines 71-92: the scan and the clean-up of the scanned text
ScanAndClean(bytes) ==
    Trim(StripUnsafe(CollapseSpaces(ScanBytes(bytes))))

PDF_ERROR == "Could not extract sufficient text from PDF. Please try pasting the text directly."

\* extractTextFromPDF with the length test of line 94 made before the clean-up
ExtractTextFromPDF_RawLength(bytes) ==
    IF Len(ScanBytes(bytes)) < MIN_PDF_TEXT
    THEN [ok |-> FALSE, msg |-> PDF_ERROR, text |-> <<>>]
    ELSE [ok |-> TRUE, msg |-> "", text |-> Slice0(ScanAndClean(bytes), MAX_PDF_TEXT)]

\* extractTextFromPDF(file): the text, or the thrown error
ExtractTextFromPDF(bytes) ==
    LET text == ScanAndClean(bytes)
    IN  IF Len(text) < MIN_PDF_TEXT
        THEN [ok |-> FALSE, msg |-> PDF_ERROR, text |-> <<>>]
        ELSE [ok |-> TRUE, msg |-> "", text |-> Slice0(text, MAX_PDF_TEXT)]

(***************************************************************************)
(* JSON values.  ty: "undef" | "null" | "num" | "str" | "arr" | "obj";     *)
(* s: the characters of a string (the digits of a number); a: the items of *)
(* an array; m: the members <<[k, v], ...>> of an object.                  *)
(***************************************************************************)
JUndef == [ty |-> "undef", s |-> <<>>, a |-> <<>>, m |-> <<>>]
JNull == [ty |-> "null", s |-> <<>>, a |-> <<>>, m |-> <<>>]
JNum(digits) == [ty |-> "num", s |-> digits, a |-> <<>>, m |-> <<>>]
JStr(chars) == [ty |-> "str", s |-> chars, a |-> <<>>, m |-> <<>>]
JArr(items) == [ty |-> "arr", s |-> <<>>, a |-> items, m |-> <<>>]
JObj(members) == [ty |-> "obj", s |-> <<>>, a |-> <<>>, m |-> members]
Member(k, v) == [k |-> k, v |-> v]

\* Array.isArray(v)
IsArray(v) == v.ty = "arr"

\* the truthiness that `v || dflt` tests
Truthy(v) ==
    CASE v.ty \in {"undef", "null"} -> FALSE
      [] v.ty = "str" -> v.s # <<>>
      [] v.ty = "num" -> v.s # <<"0">>
      [] OTHER -> TRUE

\* v || dflt
OrElse(v, dflt) == IF Truthy(v) THEN v ELSE dflt

\* reading a property of null or undefined throws a TypeError
CanRead(v) == v.ty \notin {"undef", "null"}

\* obj.k (a repeated key keeps its last value; undefined when absent)
RECURSIVE Lookup(_, _, _)
Lookup(members, k, i) ==
    IF i = 0 THEN JUndef
    ELSE IF members[i].k = k THEN members[i].v
    ELSE Lookup(members, k, i - 1)

Get(v, k) == IF v.ty = "obj" THEN Lookup(v.m, k, Len(v.m)) ELSE JUndef

\* v[i - 1]: an item of an array, a character of a string, else undefined
At(v, i) ==
    IF v.ty = "arr" /\ i \in 1..Len(v.a) THEN v.a[i]
    ELSE IF v.ty = "str" /\ i \in 1..Len(v.s) THEN JStr(<<v.s[i]>>)
    ELSE JUndef

(***************************************************************************)
(* The text of a model response: a sequence of lexical tokens.             *)
(*   fence  ```        json   the tag "json"     ws    one blank           *)
(*   txt    one character of prose               lb rb comma   { } ,       *)
(*   kv     "key": value                         lit   a bare JSON value   *)
(*   part   the characters of a token that a fence inside it has cut off   *)
(***************************************************************************)
Tok(t) == [t |-> t, k |-> <<>>, v |-> JUndef]
KV(k, v) == [t |-> "kv", k |-> k, v |-> v]
Lit(v) == [t |-> "lit", k |-> <<>>, v |-> v]
Part(chars) == [t |-> "part", k |-> chars, v |-> JUndef]

FENCE == Tok("fence")
JSONTAG == Tok("json")
WS == Tok("ws")
TXT == Tok("txt")
LB == Tok("lb")
RB == Tok("rb")
COMMA == Tok("comma")

\* positions of the tokens of kind t
Positions(toks, t) == {i \in 1..Len(toks) : toks[i].t = t}

\* /```(?:json)?\s*([\s\S]*?)```/ : the leftmost fence opens; the tag and the
\* blanks after it are skipped; the capture runs up to the next fence
RECURSIVE SkipWs(_, _)
SkipWs(toks, p) ==
    IF p <= Len(toks) /\ toks[p].t = "ws" THEN SkipWs(toks, p + 1) ELSE p

FenceMatch(toks) ==
    LET fences == Positions(toks, "fence")
    IN  IF fences = {} THEN [found |-> FALSE, capture |-> <<>>]
        ELSE LET open == SetMin(fences)
                 afterTag == IF open < Len(toks) /\ toks[open + 1].t = "json"
                             THEN open + 2 ELSE open + 1
                 start == SkipWs(toks, afterTag)
                 closers == {i \in fences : i >= start}
             IN  IF closers = {} THEN [found |-> FALSE, capture |-> <<>>]
                 ELSE [found |-> TRUE,
                       capture |-> SubSeq(toks, start, SetMin(closers) - 1)]

\* /\{[\s\S]*\}/ : from the first { to the last }
BraceMatch(toks) ==
    LET lbs == Positions(toks, "lb")
        rbs == Positions(toks, "rb")
    IN  IF lbs = {} \/ rbs = {} \/ SetMax(rbs) < SetMin(lbs)
        THEN [found |-> FALSE, match |-> <<>>]
        ELSE [found |-> TRUE, match |-> SubSeq(toks, SetMin(lbs), SetMax(rbs))]

\* JSON.parse: blanks are insignificant; an object is { member (, member)* }
NoWs(toks) == SelectSeq(toks, LAMBDA x : x.t # "ws")

IsMemberList(toks) ==
    \/ toks = <<>>
    \/ /\ Len(toks) % 2 = 1
       /\ \A i \in 1..Len(toks) :
             toks[i].t = (IF i % 2 = 1 THEN "kv" ELSE "comma")

JSONParse(jsonStr) ==
    LET toks == NoWs(jsonStr)
        n == Len(toks)
    IN  IF n = 1 /\ toks[1].t = "lit" THEN [ok |-> TRUE, v |-> toks[1].v]
        ELSE IF n >= 2 /\ toks[1].t = "lb" /\ toks[n].t = "rb"
                /\ IsMemberList(SubSeq(toks, 2, n - 1))
        THEN [ok |-> TRUE,
              v |-> JObj([i \in 1..((n - 1) \div 2) |->
                             Member(toks[2 * i].k, toks[2 * i].v)])]
        ELSE [ok |-> FALSE, v |-> JUndef]

(***************************************************************************)
(* The characters of a response text, for String.prototype.substring.      *)
(***************************************************************************)
RECURSIVE Render(_)
RECURSIVE RenderItems(_, _)
RECURSIVE RenderMembers(_, _)

Render(v) ==
    CASE v.ty = "str" -> <<"\"">> \o v.s \o <<"\"">>
      [] v.ty = "num" -> v.s
      [] v.ty = "null" -> <<"n", "u", "l", "l">>
      [] v.ty = "arr" -> <<"[">> \o RenderItems(v.a, 1) \o <<"]">>
      [] v.ty = "obj" -> <<"{">> \o RenderMembers(v.m, 1) \o <<"}">>
      [] OTHER -> <<>>

RenderItems(items, i) ==
    IF i > Len(items) THEN <<>>
    ELSE Render(items[i]) \o (IF i < Len(items) THEN <<",">> ELSE <<>>)
         \o RenderItems(items, i + 1)

RenderMembers(members, i) ==
    IF i > Len(members) THEN <<>>
    ELSE <<"\"">> \o members[i].k \o <<"\"", ":">> \o Render(members[i].v)
         \o (IF i < Len(members) THEN <<",">> ELSE <<>>)
         \o RenderMembers(members, i + 1)

RenderTok(tok) ==
    CASE tok.t = "fence" -> <<BACKQUOTE, BACKQUOTE, BACKQUOTE>>
      [] tok.t = "json" -> <<"j", "s", "o", "n">>
      [] tok.t = "ws" -> <<" ">>
      [] tok.t = "txt" -> <<"x">>
      [] tok.t = "lb" -> <<"{">>
      [] tok.t = "rb" -> <<"}">>
      [] tok.t = "comma" -> <<",">>
      [] tok.t = "kv" -> <<"\"">> \o tok.k \o <<"\"", ":">> \o Render(tok.v)
      [] tok.t = "part" -> tok.k
      [] OTHER -> Render(tok.v)

RenderText(toks) == Flatten([i \in 1..Len(toks) |-> RenderTok(toks[i])])

(***************************************************************************)
(* The text as the fence regex reads it: three backquotes open or close a  *)
(* fence wherever they stand, inside the string of a JSON value too.       *)
(***************************************************************************)
\* where three backquotes in a row begin
FencesIn(chars) ==
    {i \in 1..(Len(chars) - 2) :
        chars[i] = BACKQUOTE /\ chars[i + 1] = BACKQUOTE /\ chars[i + 2] = BACKQUOTE}

\* characters cut at their fences: part, fence, part, ...
RECURSIVE CutAtFences(_)
CutAtFences(chars) ==
    IF FencesIn(chars) = {} THEN <<Part(chars)>>
    ELSE LET at == SetMin(FencesIn(chars))
         IN  <<Part(SubSeq(chars, 1, at - 1)), FENCE>>
             \o CutAtFences(SubSeq(chars, at + 3, Len(chars)))

Pieces(tok) ==
    IF tok.t \in {"kv", "lit"} /\ FencesIn(RenderTok(tok)) # {}
    THEN CutAtFences(RenderTok(tok))
    ELSE <<tok>>

Lexed(toks) == Flatten([i \in 1..Len(toks) |-> Pieces(toks[i])])

\* lines 214-226 (and their copies in the GPT service): the text given to JSON.parse
ExtractJsonStr(response) ==
    LET fm == FenceMatch(Lexed(response))
        s1 == IF fm.found THEN fm.capture ELSE response
        bm == BraceMatch(s1)
    IN  IF bm.found THEN bm.match ELSE s1

(***************************************************************************)
(* parseGeminiResponse                                                     *)
(***************************************************************************)
K_mainIdea == <<"m", "a", "i", "n", "I", "d", "e", "a">>
K_bulletPoints == <<"b", "u", "l", "l", "e", "t", "P", "o", "i", "n", "t", "s">>
K_keywords == <<"k", "e", "y", "w", "o", "r", "d", "s">>

DEFAULT_MAIN_IDEA == JStr(<<"Content analyzed successfully">>)
DEFAULT_BULLET == JStr(<<"Key insight extracted from content">>)

\* the catch branch returning the whole response, no substring taken
ParseFallback_Uncut(response) ==
    LET chars == RenderText(response)
    IN  [mainIdea |-> JStr(chars), bulletPoints |-> <<JStr(chars)>>, keywords |-> <<>>]

\* the catch branch, lines 239-247
ParseFallback(response) ==
    LET chars == RenderText(response)
    IN  [mainIdea |-> JStr(Slice0(chars, MAIN_IDEA_FALLBACK)),
         bulletPoints |-> <<JStr(Slice0(chars, BULLET_FALLBACK))>>,
         keywords |-> <<>>]

\* parseGeminiResponse with the two slice calls left out
ParseGeminiResponse_NoClamp(response) ==
    LET p == JSONParse(ExtractJsonStr(response))
    IN  IF ~p.ok \/ ~CanRead(p.v) THEN ParseFallback(response)
        ELSE [mainIdea |-> OrElse(Get(p.v, K_mainIdea), DEFAULT_MAIN_IDEA),
              bulletPoints |->
                  IF IsArray(Get(p.v, K_bulletPoints))
                  THEN Get(p.v, K_bulletPoints).a
                  ELSE <<DEFAULT_BULLET>>,
              keywords |->
                  IF IsArray(Get(p.v, K_keywords))
                  THEN Get(p.v, K_keywords).a
                  ELSE <<>>]

\* parseGeminiResponse(response)
ParseGeminiResponse(response) ==
    LET p == JSONParse(ExtractJsonStr(response))
    IN  IF ~p.ok \/ ~CanRead(p.v) THEN ParseFallback(response)
        ELSE [mainIdea |-> OrElse(Get(p.v, K_mainIdea), DEFAULT_MAIN_IDEA),
              bulletPoints |->
                  IF IsArray(Get(p.v, K_bulletPoints))
                  THEN Slice0(Get(p.v, K_bulletPoints).a, MAX_BULLET_POINTS)
                  ELSE <<DEFAULT_BULLET>>,
              keywords |->
                  IF IsArray(Get(p.v, K_keywords))
                  THEN Slice0(Get(p.v, K_keywords).a, MAX_KEYWORDS)
                  ELSE <<>>]

(***************************************************************************)
(* The arguments of analyzeContent.                                        *)
(***************************************************************************)
StringInput(text) == [kind |-> "string", text |-> text, mime |-> "", bytes |-> <<>>]
FileInput(mime, bytes) == [kind |-> "file", text |-> <<>>, mime |-> mime, bytes |-> bytes]

\* bodies of text inputs: one word, or "a" and a second word
TextBodies ==
    {Rep("a", k) : k \in 0..MaxBody}
    \cup {<<"a", " ">> \o Rep("a", k) : k \in 1..(MaxBody - 2)}

TextInputs ==
    {StringInput(Rep(" ", l) \o body \o Rep(" ", r)) :
        l \in 0..MaxPad, r \in 0..MaxPad, body \in TextBodies}

\* PDF byte streams: three runs of one byte each; 0 is not printable, 65 is
\* "A" and 36 is "$", which the clean-up removes
PdfBytes == {0, 36, 65}
PdfRunLengths == {1, 4, MaxPdfRun - 1, MaxPdfRun}
PdfRuns == {Rep(b, n) : b \in PdfBytes, n \in PdfRunLengths}
PdfStreams == {r1 \o r2 \o r3 : r1 \in PdfRuns, r2 \in PdfRuns, r3 \in PdfRuns}

PdfInputs == {FileInput("application/pdf", bytes) : bytes \in PdfStreams}
ImageInputs == {FileInput(mime, <<1>>) : mime \in {"image/png", ""}}

\* (input, inputType) pairs, those the types allow but no branch accepts included
AnalyzeCalls ==
    {<<in, "text">> : in \in TextInputs}
    \cup {<<in, "pdf">> : in \in PdfInputs}
    \cup {<<in, "image">> : in \in ImageInputs}
    \cup {<<StringInput(Rep("a", MaxBody)), "pdf">>,
          <<StringInput(Rep("a", MaxBody)), "image">>,
          <<FileInput("image/png", <<1>>), "text">>}

(***************************************************************************)
(* What the summarization endpoint may answer.                             *)
(***************************************************************************)
\* { member, member, ... } as tokens
RECURSIVE MemberToks(_, _)
MemberToks(members, i) ==
    IF i > Len(members) THEN <<>>
    ELSE <<KV(members[i].k, members[i].v)>>
         \o (IF i < Len(members) THEN <<COMMA>> ELSE <<>>)
         \o MemberToks(members, i + 1)

ObjToks(members) == <<LB>> \o MemberToks(members, 1) \o <<RB>>

Fenced(toks) == <<FENCE, JSONTAG, WS>> \o toks \o <<WS, FENCE>>
InProse(toks) == <<TXT, TXT, WS>> \o toks \o <<WS, TXT>>

Items(prefix, n) == [i \in 1..n |-> JStr(<<prefix, ToString(i)>>)]

MainIdeaMembers == {<<>>, <<Member(K_mainIdea, JStr(<<"M">>))>>}
BulletMembers ==
    {<<>>, <<Member(K_bulletPoints, JStr(<<"b">>))>>}
    \cup {<<Member(K_bulletPoints, JArr(Items("b", n)))>> : n \in 0..MaxBullets}
KeywordMembers ==
    {<<>>, <<Member(K_keywords, JStr(<<"k">>))>>}
    \cup {<<Member(K_keywords, JArr(Items("k", n)))>> :
             n \in {0, 3, MaxKeywords - 1, MaxKeywords}}

SummaryObjects ==
    {m \o b \o k : m \in MainIdeaMembers, b \in BulletMembers, k \in KeywordMembers}

\* objects also sent inside a fence and inside prose
WrappedObjects ==
    {<<Member(K_mainIdea, JStr(<<"M">>))>> \o b : b \in BulletMembers}

OddTexts ==
    {Rep(TXT, 3),                                          \* prose, no JSON
     <<Lit(JNull)>>, <<Lit(JNum(<<"7">>))>>,               \* JSON, not an object
     <<LB, KV(K_mainIdea, JStr(<<"M">>)), COMMA, RB>>,     \* trailing comma
     <<LB, RB, TXT, LB, RB>>,                              \* two objects
     <<LB, KV(K_mainIdea, JStr(<<>>)), RB>>,               \* empty mainIdea
     <<FENCE, JSONTAG, WS, LB, RB>>,                       \* fence never closed
     <<FENCE, FENCE, LB, RB>>}                             \* JSON after the fence

\* a string that quotes a code fence: a, three backquotes, b
QUOTED_FENCE == <<"a", BACKQUOTE, BACKQUOTE, BACKQUOTE, "b">>

\* objects of the requested shape; in the second the main idea quotes a fence
ShapedObjects ==
    {<<Member(K_mainIdea, JStr(m)),
       Member(K_bulletPoints, JArr(Items("b", 3))),
       Member(K_keywords, JArr(Items("k", 3)))>> : m \in {<<"M">>, QUOTED_FENCE}}

\* n characters that are no JSON: x"aa...a"
RawText(n) == <<TXT, Lit(JStr(Rep("a", n - 3)))>>

\* lengths around the two cuts of the catch branch
RawLengths ==
    {MAIN_IDEA_FALLBACK - 1, MAIN_IDEA_FALLBACK, MAIN_IDEA_FALLBACK + 1,
     BULLET_FALLBACK, MaxRaw}

GeminiTexts ==
    {ObjToks(o) : o \in SummaryObjects}
    \cup {Fenced(ObjToks(o)) : o \in WrappedObjects}
    \cup {InProse(ObjToks(o)) : o \in WrappedObjects}
    \cup OddTexts
    \cup {RawText(n) : n \in RawLengths}
    \cup {ObjToks(o) : o \in ShapedObjects}
    \cup {Fenced(ObjToks(o)) : o \in ShapedObjects}
    \cup {<<FENCE, WS>> \o ObjToks(o) \o <<FENCE>> : o \in ShapedObjects}

\* net: "reject" (fetch throws) | "http" (not ok; the body is an object, or
\* is not JSON and stands for {}) | "httpNull" (not ok, the body is the JSON
\* null) | "badBody" (ok, body is not JSON) | "ok";
\* errMsg: error.message of the error body ("" when absent);
\* text: candidates[0].content.parts[0].text (<<>> when absent or empty)
Answer(net, status, errMsg, text) ==
    [net |-> net, status |-> status, errMsg |-> errMsg, text |-> text]

NoAnswer == Answer("none", 0, "", <<>>)

FailedAnswers ==
    {Answer("reject", 0, "", <<>>), Answer("badBody", 200, "", <<>>)}
    \cup {Answer("http", st, msg, <<>>) :
             st \in {429, 500}, msg \in {"", "Resource has been exhausted"}}
    \cup {Answer("httpNull", 500, "", <<>>)}

GeminiAnswers ==
    FailedAnswers \cup {Answer("ok", 200, "", text) : text \in GeminiTexts \cup {<<>>}}

(***************************************************************************)
(* analyzeContent, analyzeTextContent, analyzeImageContent                 *)
(***************************************************************************)
VALIDATION_ERROR == "Please provide more content for analysis (at least 10 characters)"
NO_GEMINI_RESPONSE == "No response from Gemini API"
FETCH_FAILED == "Failed to fetch"
BODY_NOT_JSON == "Unexpected token in JSON"
READ_FAILED == "FileReader error"
\* errorData.error with errorData the null that response.json() resolved to
NULL_BODY_ERROR == "Cannot read properties of null (reading 'error')"

NoSummary == [mainIdea |-> JUndef, bulletPoints |-> <<>>, keywords |-> <<>>]

NoOutcome == [kind |-> "none", msg |-> "", summary |-> NoSummary]
Threw(msg) == [kind |-> "error", msg |-> msg, summary |-> NoSummary]
Returned(result) == [kind |-> "summary", msg |-> "", summary |-> result]

\* the keys the callers of the two services hold
GEMINI_KEY == "gemini-key"
OPENAI_KEY == "openai-key"

\* lines 128-142 and 168-191: the key goes into the query of the URL
GeminiRequest(kind, content, mime, apiKey) ==
    [endpoint |-> "gemini", kind |-> kind, content |-> content, mime |-> mime,
     key |-> apiKey]

\* input.trim().length < 10 tested on the untrimmed input
TooShort_NoTrim(text) == Len(text) < MIN_TEXT_LENGTH

\* line 261
TooShort(text) == Len(Trim(text)) < MIN_TEXT_LENGTH

\* lines 144-156 and 193-205: what an answer of the endpoint becomes
GeminiResult(ans) ==
    CASE ans.net = "reject" -> Threw(FETCH_FAILED)
      [] ans.net = "http" ->
            Threw(IF ans.errMsg # "" THEN ans.errMsg
                  ELSE "Gemini API error: " \o ToString(ans.status))
      [] ans.net = "httpNull" -> Threw(NULL_BODY_ERROR)
      [] ans.net = "badBody" -> Threw(BODY_NOT_JSON)
      [] OTHER ->
            IF ans.text = <<>> THEN Threw(NO_GEMINI_RESPONSE)
            ELSE Returned(ParseGeminiResponse(ans.text))

\* analyzeContent up to its first await of the network (lines 258-281, and
\* 127-142 / 167-191 of the helper it calls): a throw, or the request issued
Began(threw, msg, request, content) ==
    [threw |-> threw, msg |-> msg, request |-> request, content |-> content]

AnalyzeBegin(input, inputType, readOk, apiKey) ==
    IF inputType = "text" /\ input.kind = "string"
    THEN IF TooShort(input.text)
         THEN Began(TRUE, VALIDATION_ERROR, <<>>, <<>>)
         ELSE Began(FALSE, "", <<GeminiRequest("text", input.text, "", apiKey)>>, input.text)
    ELSE IF inputType = "pdf" /\ input.kind = "file"
    THEN LET extracted == ExtractTextFromPDF(input.bytes)
         IN  IF ~extracted.ok
             THEN Began(TRUE, extracted.msg, <<>>, <<>>)
             ELSE Began(FALSE, "", <<GeminiRequest("text", extracted.text, "", apiKey)>>,
                        extracted.text)
    ELSE IF inputType = "image" /\ input.kind = "file"
    THEN IF ~readOk
         THEN Began(TRUE, READ_FAILED, <<>>, <<>>)
         ELSE Began(FALSE, "",
                    <<GeminiRequest("image", <<>>,
                         IF input.mime # "" THEN input.mime ELSE "image/jpeg",
                         apiKey)>>,
                    <<>>)
    ELSE Began(TRUE, "Unsupported input type: " \o inputType, <<>>, <<>>)

\* a call of analyzeContent runs to its first await of the network
AnalyzeStart(input, inputType, readOk) ==
    /\ nPc = "idle"
    /\ nInput' = input
    /\ nInputType' = inputType
    /\ nResponse' = NoAnswer
    /\ LET began == AnalyzeBegin(input, inputType, readOk, GEMINI_KEY)
       IN  /\ nOutcome' = IF began.threw THEN Threw(began.msg) ELSE NoOutcome
           /\ nRequests' = began.request
           /\ nContent' = began.content
           /\ nPc' = IF began.threw THEN "done" ELSE "awaitGemini"
    /\ UNCHANGED <<genVars, appVars, fbVars>>

\* the endpoint answers: analyzeTextContent / analyzeImageContent finish
AnalyzeFinish(ans) ==
    /\ nPc = "awaitGemini"
    /\ nResponse' = ans
    /\ nOutcome' = GeminiResult(ans)
    /\ nPc' = "done"
    /\ UNCHANGED <<nInput, nInputType, nContent, nRequests>>
    /\ UNCHANGED <<genVars, appVars, fbVars>>

\* the caller takes the result; the next call starts afresh
AnalyzeReturn ==
    /\ nPc = "done"
    /\ nPc' = "idle"
    /\ nInput' = StringInput(<<>>)
    /\ nInputType' = "text"
    /\ nContent' = <<>>
    /\ nRequests' = <<>>
    /\ nResponse' = NoAnswer
    /\ nOutcome' = NoOutcome
    /\ UNCHANGED <<genVars, appVars, fbVars>>

NormNext ==
    \/ \E call \in AnalyzeCalls, readOk \in BOOLEAN :
           AnalyzeStart(call[1], call[2], readOk)
    \/ \E ans \in GeminiAnswers : AnalyzeFinish(ans)
    \/ AnalyzeReturn

(***************************************************************************)
(* parseGPTResponse and the parsing inside regenerateSingleCaption         *)
(***************************************************************************)
K_captions == <<"c", "a", "p", "t", "i", "o", "n", "s">>
K_caption == <<"c", "a", "p", "t", "i", "o", "n">>
K_text == <<"t", "e", "x", "t">>
K_hookLines == <<"h", "o", "o", "k", "L", "i", "n", "e", "s">>
K_cta == <<"c", "t", "a">>
K_hashtags == <<"h", "a", "s", "h", "t", "a", "g", "s">>

EMPTY_STRING == JStr(<<>>)

PARSE_ERROR == "Failed to parse caption response. Please try again."
SYNTAX_ERROR == "SyntaxError: Unexpected token in JSON"
TYPE_ERROR == "TypeError: Cannot read properties of undefined"
NO_GPT_RESPONSE == "No response from OpenAI API"

\* h.replace(/^#+/, ''): every leading # removed
StripHash_All(h) ==
    LET inked == {i \in 1..Len(h) : h[i] # "#"}
    IN  IF inked = {} THEN <<>> ELSE SubSeq(h, SetMin(inked), Len(h))

\* h.replace(/^#/, '')
StripHash(h) == IF h # <<>> /\ Head(h) = "#" THEN Tail(h) ELSE h

\* `caption-${Date.now()}-${index}` and `caption-${Date.now()}-regen`
CaptionId(now, tag) == [prefix |-> "caption", ts |-> now, tag |-> tag]

\* building the result throws: the entry is null or undefined, or a hashtag
\* has no replace method
EntryThrows(entry) ==
    \/ ~CanRead(entry)
    \/ /\ IsArray(Get(entry, K_hashtags))
       /\ \E i \in 1..Len(Get(entry, K_hashtags).a) :
             Get(entry, K_hashtags).a[i].ty # "str"

StrippedTags(entry) ==
    IF IsArray(Get(entry, K_hashtags))
    THEN [i \in 1..Len(Get(entry, K_hashtags).a) |->
             JStr(StripHash(Get(entry, K_hashtags).a[i].s))]
    ELSE <<>>

\* the object literal with `caption: caption.text` and `cta: caption.cta`,
\* the two `|| ''` left out
CaptionResultOf_NoDefault(entry, id) ==
    [id |-> id,
     caption |-> Get(entry, K_text),
     hookLines |-> IF IsArray(Get(entry, K_hookLines))
                   THEN Get(entry, K_hookLines).a ELSE <<>>,
     cta |-> Get(entry, K_cta),
     hashtags |-> StrippedTags(entry)]

\* the object literal of lines 208-216 and 345-353
CaptionResultOf(entry, id) ==
    [id |-> id,
     caption |-> OrElse(Get(entry, K_text), EMPTY_STRING),
     hookLines |-> IF IsArray(Get(entry, K_hookLines))
                   THEN Get(entry, K_hookLines).a ELSE <<>>,
     cta |-> OrElse(Get(entry, K_cta), EMPTY_STRING),
     hashtags |-> StrippedTags(entry)]

Failed(msg) == [ok |-> FALSE, msg |-> msg, captions |-> <<>>]
Parsed(results) == [ok |-> TRUE, msg |-> "", captions |-> results]

\* the captions.map of lines 203-216
MapCaptions(entries, now) ==
    [i \in 1..Len(entries) |-> CaptionResultOf(entries[i], CaptionId(now, ToString(i - 1)))]

\* parseGPTResponse whose catch branch returns the raw response as one caption
ParseGPTResponse_Fallback(response, now) ==
    LET p == JSONParse(ExtractJsonStr(response))
        entries == Get(p.v, K_captions)
    IN  IF \/ ~p.ok \/ ~CanRead(p.v) \/ ~Truthy(entries) \/ ~IsArray(entries)
           \/ \E i \in 1..Len(entries.a) : EntryThrows(entries.a[i])
        THEN Parsed(<<[id |-> CaptionId(now, "0"),
                       caption |-> JStr(RenderText(response)),
                       hookLines |-> <<>>, cta |-> EMPTY_STRING, hashtags |-> <<>>]>>)
        ELSE Parsed(MapCaptions(entries.a, now))

\* parseGPTResponse(response): the results, or the error of its catch branch
ParseGPTResponse(response, now) ==
    LET p == JSONParse(ExtractJsonStr(response))
        entries == Get(p.v, K_captions)
    IN  IF \/ ~p.ok \/ ~CanRead(p.v) \/ ~Truthy(entries) \/ ~IsArray(entries)
           \/ \E i \in 1..Len(entries.a) : EntryThrows(entries.a[i])
        THEN Failed(PARSE_ERROR)
        ELSE Parsed(MapCaptions(entries.a, now))

\* parsed.caption || parsed.captions?.[0]
RegenEntry(parsed) ==
    IF Truthy(Get(parsed, K_caption)) THEN Get(parsed, K_caption)
    ELSE At(Get(parsed, K_captions), 1)

\* lines 336-353: the single result, or the error thrown on the way
ParseRegenResponse(response, now) ==
    LET p == JSONParse(ExtractJsonStr(response))
    IN  IF ~p.ok THEN Failed(SYNTAX_ERROR)
        ELSE IF ~CanRead(p.v) \/ EntryThrows(RegenEntry(p.v)) THEN Failed(TYPE_ERROR)
        ELSE Parsed(<<CaptionResultOf(RegenEntry(p.v), CaptionId(now, "regen"))>>)

(***************************************************************************)
(* What the generation endpoint may answer.                                *)
(***************************************************************************)
TagStrings == SeqsUpTo({"#", "a"}, MaxTagLen)

HashtagValues ==
    {JStr(<<"#", "a">>),                                   \* not an array
     JArr(<<>>),
     JArr(<<JStr(<<"#", "a">>), JStr(<<"a">>), JStr(<<"#", "#", "a">>)>>),
     JArr(<<JStr(<<"a">>), JNum(<<"7">>)>>)}               \* a tag that is no string
    \cup {JArr(<<JStr(h)>>) : h \in TagStrings}

TextValues == {EMPTY_STRING, JStr(<<"T">>)}
HookValues == {JStr(<<"h">>)} \cup {JArr(Items("h", n)) : n \in 0..3}
CtaValues == {EMPTY_STRING, JStr(<<"C">>)}

Opt(k, values) == {<<>>} \cup {<<Member(k, v)>> : v \in values}

GoodText == <<Member(K_text, JStr(<<"T">>))>>
GoodHooks == <<Member(K_hookLines, JArr(Items("h", 2)))>>
GoodCta == <<Member(K_cta, JStr(<<"C">>))>>
GoodTags == <<Member(K_hashtags, JArr(<<JStr(<<"#", "a">>), JStr(<<"a">>)>>))>>

GoodEntry == JObj(GoodText \o GoodHooks \o GoodCta \o GoodTags)

\* entries that depart from the requested shape in one field, or are no object
OddEntries ==
    {JObj(t \o GoodHooks \o GoodCta \o GoodTags) : t \in Opt(K_text, TextValues)}
    \cup {JObj(GoodText \o h \o GoodCta \o GoodTags) : h \in Opt(K_hookLines, HookValues)}
    \cup {JObj(GoodText \o GoodHooks \o c \o GoodTags) : c \in Opt(K_cta, CtaValues)}
    \cup {JObj(GoodText \o GoodHooks \o GoodCta \o g) : g \in Opt(K_hashtags, HashtagValues)}
    \cup {JObj(<<>>), JNull, JStr(<<"s">>)}

Entries == {GoodEntry} \cup OddEntries

\* captions arrays: good entries, at most one of them replaced
CaptionArrays ==
    {Rep(GoodEntry, n) : n \in 0..MaxCaptions}
    \cup {[Rep(GoodEntry, n) EXCEPT ![i] = e] :
             n \in 1..MaxCaptions, i \in 1..MaxCaptions, e \in OddEntries}

CaptionObjects ==
    {<<Member(K_captions, JArr(arr))>> : arr \in {a \in CaptionArrays : TRUE}}
    \cup {<<Member(K_caption, e)>> : e \in Entries}
    \cup {<<>>,
          <<Member(K_captions, JStr(<<"s">>))>>,
          <<Member(K_captions, JNull)>>,
          <<Member(K_caption, JNull), Member(K_captions, JArr(<<GoodEntry>>))>>}

\* an entry whose text quotes a code fence
QuotingEntry ==
    JObj(<<Member(K_text, JStr(QUOTED_FENCE))>> \o GoodHooks \o GoodCta \o GoodTags)

\* {"captions": [3 entries]} with such an entry first, bare and fenced
QuotingTexts ==
    LET toks == ObjToks(<<Member(K_captions, JArr(<<QuotingEntry, GoodEntry, GoodEntry>>))>>)
    IN  {toks, Fenced(toks)}

GptOddTexts ==
    {Rep(TXT, 3), <<Lit(JNull)>>, <<Lit(JNum(<<"7">>))>>,
     <<LB, KV(K_captions, JArr(Rep(GoodEntry, 3))), COMMA, RB>>,
     <<FENCE, JSONTAG, WS, LB, KV(K_captions, JArr(Rep(GoodEntry, 3)))>>}

GptTexts ==
    {ObjToks(o) : o \in CaptionObjects}
    \cup {Fenced(ObjToks(<<Member(K_captions, JArr(Rep(GoodEntry, n)))>>)) : n \in 0..MaxCaptions}
    \cup {InProse(ObjToks(<<Member(K_caption, e)>>)) : e \in {GoodEntry, JObj(<<>>)}}
    \cup GptOddTexts
    \cup QuotingTexts

GptAnswers ==
    FailedAnswers \cup {Answer("ok", 200, "", text) : text \in GptTexts \cup {<<>>}}

(***************************************************************************)
(* generateCaptions and regenerateSingleCaption                            *)
(***************************************************************************)
Platforms == {"instagram", "youtube", "linkedin"}

\* the request of a call: the prompt is built from the platform and the
\* summary of the CaptionRequest and, for a regeneration, from the texts of
\* the existing captions
\* the key goes into the Authorization header
GptRequest(op, platform, contentSummary, existingCaptions, apiKey) ==
    [endpoint |-> "openai", op |-> op, platform |-> platform,
     summary |-> contentSummary, existing |-> existingCaptions, key |-> apiKey]

\* the summary handed to the calls of the generator
GIVEN_SUMMARY ==
    [mainIdea |-> JStr(<<"M">>), bulletPoints |-> Items("b", 3), keywords |-> Items("k", 3)]

\* existingCaptions: none for generate; for a regeneration three texts, the
\* text "T" of the model's answers among them or not
ExistingCaptions(op) ==
    IF op = "generate" THEN {<<>>}
    ELSE {<<JStr(<<"T">>), JStr(<<"U">>), JStr(<<"V">>)>>,
          <<JStr(<<"U">>), JStr(<<"V">>), JStr(<<"W">>)>>}

NoCaptions == [kind |-> "none", msg |-> "", captions |-> <<>>]
GenThrew(msg) == [kind |-> "error", msg |-> msg, captions |-> <<>>]
GenReturned(results) == [kind |-> "captions", msg |-> "", captions |-> results]

\* lines 256-268 and 323-353: what an answer of the endpoint becomes
GptResult(op, ans, now) ==
    CASE ans.net = "reject" -> GenThrew(FETCH_FAILED)
      [] ans.net = "http" ->
            GenThrew(IF ans.errMsg # "" THEN ans.errMsg
                     ELSE "OpenAI API error: " \o ToString(ans.status))
      [] ans.net = "httpNull" -> GenThrew(NULL_BODY_ERROR)
      [] ans.net = "badBody" -> GenThrew(BODY_NOT_JSON)
      [] OTHER ->
            IF ans.text = <<>> THEN GenThrew(NO_GPT_RESPONSE)
            ELSE LET Settled(r) == IF r.ok THEN GenReturned(r.captions) ELSE GenThrew(r.msg)
                 IN  Settled(IF op = "generate" THEN ParseGPTResponse(ans.text, now)
                             ELSE ParseRegenResponse(ans.text, now))

\* the call up to its await of the network: the prompt is built, the request sent
GenStart(op, platform, existingCaptions) ==
    /\ gPc = "idle"
    /\ gOp' = op
    /\ gRequests' = <<GptRequest(op, platform, GIVEN_SUMMARY, existingCaptions, OPENAI_KEY)>>
    /\ gPc' = "awaitGPT"
    /\ UNCHANGED <<gResponse, gNow, gOutcome>>
    /\ UNCHANGED <<normVars, appVars, fbVars>>

\* the endpoint answers at time `now`: the call returns or throws
GenFinish(ans, now) ==
    /\ gPc = "awaitGPT"
    /\ gResponse' = ans
    /\ gNow' = now
    /\ gOutcome' = GptResult(gOp, ans, now)
    /\ gPc' = "done"
    /\ UNCHANGED <<gOp, gRequests>>
    /\ UNCHANGED <<normVars, appVars, fbVars>>

\* the caller takes the result; the next call starts afresh
GenReturn ==
    /\ gPc = "done"
    /\ gPc' = "idle"
    /\ gOp' = "generate"
    /\ gRequests' = <<>>
    /\ gResponse' = NoAnswer
    /\ gNow' = 0
    /\ gOutcome' = NoCaptions
    /\ UNCHANGED <<normVars, appVars, fbVars>>

GenNext ==
    \/ \E op \in {"generate", "regenerate"}, platform \in Platforms :
           \E existingCaptions \in ExistingCaptions(op) :
               GenStart(op, platform, existingCaptions)
    \/ \E ans \in GptAnswers, now \in 0..MaxClock : GenFinish(ans, now)
    \/ GenReturn

(***************************************************************************)
(* createFallbackSummary                                                   *)
(***************************************************************************)
FALLBACK_SENTENCES == 3        \* sentences.slice(0, 3)
MIN_WORD_LETTERS == 4          \* [a-z]{4,}
FALLBACK_KEYWORDS == 5         \* .slice(0, 5)
FALLBACK_MAIN_IDEA == 100      \* text.substring(0, 100)
FALLBACK_BULLET == 200         \* text.substring(0, 200)

IsTerminator(c) == c \in {".", "!", "?"}

\* text.match(/[^.!?]+[.!?]+/g), the matches that start at pos or later
RECURSIVE SentencesFrom(_, _)
SentencesFrom(text, pos) ==
    LET starts == {i \in pos..Len(text) : ~IsTerminator(text[i])}
    IN  IF starts = {} THEN <<>>
        ELSE LET first == SetMin(starts)
                 stops == {j \in first..Len(text) : IsTerminator(text[j])}
             IN  IF stops = {} THEN <<>>
                 ELSE LET stop == SetMin(stops)
                          rest == {k \in stop..Len(text) : ~IsTerminator(text[k])}
                          last == IF rest = {} THEN Len(text) ELSE SetMin(rest) - 1
                      IN  <<SubSeq(text, first, last)>> \o SentencesFrom(text, last + 1)

UpperCase ==
    <<"A", "B", "C", "D", "E", "F", "G", "H", "I", "J", "K", "L", "M",
      "N", "O", "P", "Q", "R", "S", "T", "U", "V", "W", "X", "Y", "Z">>

LowerCase ==
    <<"a", "b", "c", "d", "e", "f", "g", "h", "i", "j", "k", "l", "m",
      "n", "o", "p", "q", "r", "s", "t", "u", "v", "w", "x", "y", "z">>

ToLowerCase(s) ==
    [i \in 1..Len(s) |->
        IF \E u \in 1..Len(UpperCase) : UpperCase[u] = s[i]
        THEN LowerCase[CHOOSE u \in 1..Len(UpperCase) : UpperCase[u] = s[i]]
        ELSE s[i]]

IsLowerLetter(c) == \E l \in 1..Len(LowerCase) : LowerCase[l] = c

\* the elements of a set of numbers in increasing order
Ascending(S) ==
    [k \in 1..Cardinality(S) |-> CHOOSE x \in S : Cardinality({y \in S : y < x}) = k - 1]

\* lower.match(/\b[a-z]{4,}\b/g): the runs of word characters that are made
\* of lowercase letters only and are at least 4 long, in order
WordMatches(lower) ==
    LET n == Len(lower)
        IsWord(i) == lower[i] \in WordChars
        EndOf(i) == SetMin({j \in i..n : j = n \/ ~IsWord(j + 1)})
        starts == {i \in 1..n : IsWord(i) /\ (i = 1 \/ ~IsWord(i - 1))}
        hits == {i \in starts :
                    /\ EndOf(i) - i + 1 >= MIN_WORD_LETTERS
                    /\ \A j \in i..EndOf(i) : IsLowerLetter(lower[j])}
        order == Ascending(hits)
    IN  [k \in 1..Len(order) |-> SubSeq(lower, order[k], EndOf(order[k]))]

\* the words a fresh {} answers to before any is stored (through
\* Object.prototype), among those /\b[a-z]{4,}\b/ can match
INHERITED_KEYS == {<<"c", "o", "n", "s", "t", "r", "u", "c", "t", "o", "r">>}

\* wordFreq[word] after the forEach is a number; for an inherited key the
\* first read is a function, `+ 1` makes a string of it, and the subtraction
\* in the comparator yields NaN
CountsAsNumber(word) == word \notin INHERITED_KEYS

\* Object.entries(wordFreq): one entry per distinct word, in the order in
\* which the words were first stored
Firsts(words) == {i \in 1..Len(words) : \A j \in 1..(i - 1) : words[j] # words[i]}

Count(words, i) == Cardinality({j \in 1..Len(words) : words[j] = words[i]})

\* (a, b) => b[1] - a[1] is negative for (entry i, entry j): i sorts first
SortsBefore(words, i, j) ==
    /\ CountsAsNumber(words[i])
    /\ CountsAsNumber(words[j])
    /\ Count(words, i) > Count(words, j)

\* the comparator is consistent: being tied (0, or NaN read as 0) is transitive
ConsistentComparator(words) ==
    LET Tied(a, b) == ~SortsBefore(words, a, b) /\ ~SortsBefore(words, b, a)
    IN  \A a, b, c \in Firsts(words) : (Tied(a, b) /\ Tied(b, c)) => Tied(a, c)

\* Object.entries(wordFreq).sort((a, b) => b[1] - a[1]) under a consistent
\* comparator: the sort is stable, so tied words stay in the order in which
\* they were first seen
ByFrequency(words) ==
    LET firsts == Firsts(words)
        Ahead(i) == {j \in firsts :
                        \/ SortsBefore(words, j, i)
                        \/ ~SortsBefore(words, i, j) /\ j < i}
    IN  [k \in 1..Cardinality(firsts) |->
            words[CHOOSE i \in firsts : Cardinality(Ahead(i)) = k - 1]]

Orderings(S) ==
    {perm \in [1..Cardinality(S) -> S] :
        \A a, b \in 1..Cardinality(S) : a # b => perm[a] # perm[b]}

\* the orders the sort may leave: under an inconsistent comparator the order
\* is implementation-defined
SortOutcomes(words) ==
    IF ConsistentComparator(words) THEN {ByFrequency(words)}
    ELSE {[k \in 1..Cardinality(Firsts(words)) |-> words[perm[k]]] :
             perm \in Orderings(Firsts(words))}

\* lines 291-313 with sentences.slice(0, 3).map(s => s) : no trim
CreateFallbackSummary_NoTrim(text, sorted) ==
    LET matched == SentencesFrom(text, 1)
        sentences == IF matched = <<>> THEN <<text>> ELSE matched
        bulletPoints ==
            [i \in 1..Min(Len(sentences), FALLBACK_SENTENCES) |-> JStr(sentences[i])]
    IN  [mainIdea |-> IF Len(bulletPoints) > 0 /\ Truthy(bulletPoints[1])
                      THEN bulletPoints[1]
                      ELSE JStr(Slice0(text, FALLBACK_MAIN_IDEA)),
         bulletPoints |-> IF Len(bulletPoints) > 0 THEN bulletPoints
                          ELSE <<JStr(Slice0(text, FALLBACK_BULLET))>>,
         keywords |-> [k \in 1..Min(Len(sorted), FALLBACK_KEYWORDS) |-> JStr(sorted[k])]]

\* lines 291-313; sorted: the words as the sort of line 304 left them
CreateFallbackSummary(text, sorted) ==
    LET matched == SentencesFrom(text, 1)
        sentences == IF matched = <<>> THEN <<text>> ELSE matched
        bulletPoints ==
            [i \in 1..Min(Len(sentences), FALLBACK_SENTENCES) |-> JStr(Trim(sentences[i]))]
    IN  [mainIdea |-> IF Len(bulletPoints) > 0 /\ Truthy(bulletPoints[1])
                      THEN bulletPoints[1]
                      ELSE JStr(Slice0(text, FALLBACK_MAIN_IDEA)),
         bulletPoints |-> IF Len(bulletPoints) > 0 THEN bulletPoints
                          ELSE <<JStr(Slice0(text, FALLBACK_BULLET))>>,
         keywords |-> [k \in 1..Min(Len(sorted), FALLBACK_KEYWORDS) |-> JStr(sorted[k])]]

\* what a call of createFallbackSummary(text) may return
FallbackSummaries(text) ==
    {CreateFallbackSummary(text, sorted) :
        sorted \in SortOutcomes(WordMatches(ToLowerCase(text)))}

(***************************************************************************)
(* Calls of createFallbackSummary.                                         *)
(***************************************************************************)
\* the pieces texts are made of: sentences, a blank one, bare terminators,
\* and a tail that no terminator ends
PIECE_ALPHA == <<"A", "l", "p", "h", "a", ".">>
PIECE_ALPHA_BETA == <<" ", "A", "l", "p", "h", "a", " ", "b", "e", "t", "a", "!">>
PIECE_BETA_GAMMA == <<" ", "b", "e", "t", "a", " ", "g", "a", "m", "m", "a", " ", "d",
       "e", "l", "t", "a", "?", "!">>
PIECE_ZETA == <<" ", "z", "e", "t", "a", " ", "i", "o", "t", "a", " ", "k", "a",
       "p", "p", "a", " ", "a", "2", "b", "c", "d", " ", "h", "i",
       ".">>
PIECE_BLANK == <<" ", ".">>
PIECE_DOTS == <<".", ".">>
PIECE_TAIL == <<" ", "t", "a", "i", "l">>
PIECE_INHERITED == <<" ", "c", "o", "n", "s", "t", "r", "u", "c", "t", "o", "r", ".">>

PlainPieces ==
    {PIECE_ALPHA, PIECE_ALPHA_BETA, PIECE_BETA_GAMMA, PIECE_ZETA, PIECE_BLANK,
     PIECE_DOTS, PIECE_TAIL}

\* texts of up to MaxSentences pieces; those that hold an inherited key are
\* made of three pieces at most
FallbackTexts ==
    {Flatten(ps) : ps \in SeqsUpTo(PlainPieces, MaxSentences)}
    \cup {Flatten(ps) :
             ps \in SeqsUpTo({PIECE_ALPHA, PIECE_ALPHA_BETA, PIECE_INHERITED}, 3)}

\* a call of createFallbackSummary: it returns at once
FallbackCall(text) ==
    /\ fbPc = "idle"
    /\ fbText' = text
    /\ \E result \in FallbackSummaries(text) : fbResult' = result
    /\ fbPc' = "done"
    /\ UNCHANGED <<normVars, genVars, appVars>>

\* the caller takes the result; the next call starts afresh
FallbackReturn ==
    /\ fbPc = "done"
    /\ fbPc' = "idle"
    /\ fbText' = <<>>
    /\ fbResult' = NoSummary
    /\ UNCHANGED <<normVars, genVars, appVars>>

FallbackNext ==
    \/ \E text \in FallbackTexts : FallbackCall(text)
    \/ FallbackReturn

(***************************************************************************)
(* App: what the user can enter, and what the endpoints may answer.        *)
(***************************************************************************)
MaxClicks == 3       \* runs and regenerations started, taken together
MaxCardClicks == 4   \* the same, where the user does nothing else

NoFile == [kind |-> "none", text |-> <<>>, mime |-> "", bytes |-> <<>>]

\* a PDF with 50 extractable characters, one with 4, an image, a text file
PdfGood == FileInput("application/pdf", Rep(65, MIN_PDF_TEXT) \o <<0>>)
PdfThin == FileInput("application/pdf", <<65, 65, 65, 65, 0>>)
PngFile == FileInput("image/png", <<1>>)
TxtFile == FileInput("text/plain", <<65>>)

AppFiles == {PdfGood, PdfThin, PngFile, TxtFile}

\* what the user types: "Hi." (under 10 characters) and "Good news. Good!"
AppTexts ==
    {<<"H", "i", ".">>,
     <<"G", "o", "o", "d", " ", "n", "e", "w", "s", ".", " ", "G", "o", "o", "d", "!">>}

\* the one text typed where the cards are what is looked at
CardTexts == {<<"G", "o", "o", "d", " ", "n", "e", "w", "s", ".", " ", "G", "o", "o", "d", "!">>}

\* a key, once entered, stays: the keys a suspended handler has captured are
\* the keys of the fields
AppGeminiKeys == {GEMINI_KEY}
AppOpenaiKeys == {OPENAI_KEY}

NewEntry == JObj(<<Member(K_text, JStr(<<"N">>))>> \o GoodHooks \o GoodCta \o GoodTags)

\* the summarization endpoint fails, or answers with a summary
AppGeminiAnswers ==
    {Answer("reject", 0, "", <<>>),
     Answer("ok", 200, "",
            ObjToks(<<Member(K_mainIdea, JStr(<<"M">>)),
                      Member(K_bulletPoints, JArr(Items("b", 2)))>>))}

\* the generation endpoint fails, or answers {"captions": [3 entries]}
AppGptAnswers ==
    {Answer("reject", 0, "", <<>>),
     Answer("ok", 200, "", ObjToks(<<Member(K_captions, JArr(Rep(GoodEntry, 3)))>>))}

\* asked for one more caption, it fails, or answers {"caption": entry}
AppRegenAnswers ==
    {Answer("reject", 0, "", <<>>),
     Answer("ok", 200, "", ObjToks(<<Member(K_caption, NewEntry)>>))}

(***************************************************************************)
(* App: the event handlers of the panel.                                   *)
(***************************************************************************)
VALID_IMAGE_TYPES == {"image/jpeg", "image/png", "image/gif", "image/webp"}
VALID_PDF_TYPES == {"application/pdf"}

INVALID_IMAGE == "Please select a valid image file (JPEG, PNG, GIF, WebP)"
INVALID_PDF == "Please select a valid PDF file"
NEED_KEYS == "Please enter both API keys"
NEED_TEXT == "Please enter some text content"
COULD_NOT_ANALYZE == "Could not analyze file. Please try with text input instead."
REGEN_FAILED == "Failed to regenerate caption"
STEP_ANALYZING == "Analyzing content with AI..."
STEP_CRAFTING == "Crafting perfect captions..."
PLACEHOLDER == JStr(<<"Regenerating...">>)
DEFAULT_PLATFORM == "instagram"

\* inputSource.toUpperCase()
NeedFile(source) == "Please upload a " \o (IF source = "pdf" THEN "PDF" ELSE "IMAGE") \o " file"

\* the handleGenerate call in flight: where it is suspended, the values its
\* closure holds, the requests it has issued, and what its call of
\* analyzeContent has returned or thrown
RunAt(pc, source, text, input, requests) ==
    [pc |-> pc, inputSource |-> source, textInput |-> text, input |-> input,
     requests |-> requests, analysis |-> NoOutcome]

NoRun == RunAt("idle", "text", <<>>, NoFile, <<>>)

\* line 375
CanGenerate ==
    \/ inputSource = "text" /\ Len(Trim(textInput)) > 0
    \/ inputSource \in {"pdf", "image"} /\ uploadedFile # NoFile

\* a tab button that selects the source and leaves the file where it is
SelectTab_KeepsFile(source) ==
    /\ inputSource' = source
    /\ UNCHANGED <<textInput, uploadedFile, geminiKey, openaiKey, isLoading, loadingStep,
                   captions, error, summary, run, regens, clock, clicks>>
    /\ UNCHANGED <<normVars, genVars, fbVars>>

\* the tab buttons, lines 446-464
SelectTab(source) ==
    /\ inputSource' = source
    /\ uploadedFile' = NoFile
    /\ UNCHANGED <<textInput, geminiKey, openaiKey, isLoading, loadingStep, captions,
                   error, summary, run, regens, clock, clicks>>
    /\ UNCHANGED <<normVars, genVars, fbVars>>

\* the textarea, shown on the text tab
SetTextInput(text) ==
    /\ inputSource = "text"
    /\ text # textInput
    /\ textInput' = text
    /\ UNCHANGED <<inputSource, uploadedFile, geminiKey, openaiKey, isLoading,
                   loadingStep, captions, error, summary, run, regens, clock, clicks>>
    /\ UNCHANGED <<normVars, genVars, fbVars>>

SetGeminiKey(key) ==
    /\ key # geminiKey
    /\ geminiKey' = key
    /\ UNCHANGED <<inputSource, textInput, uploadedFile, openaiKey, isLoading,
                   loadingStep, captions, error, summary, run, regens, clock, clicks>>
    /\ UNCHANGED <<normVars, genVars, fbVars>>

SetOpenaiKey(key) ==
    /\ key # openaiKey
    /\ openaiKey' = key
    /\ UNCHANGED <<inputSource, textInput, uploadedFile, geminiKey, isLoading,
                   loadingStep, captions, error, summary, run, regens, clock, clicks>>
    /\ UNCHANGED <<normVars, genVars, fbVars>>

\* handleFileSelect, reached from the upload zone (shown while no file is held)
HandleFileSelect(file) ==
    /\ inputSource \in {"pdf", "image"}
    /\ uploadedFile = NoFile
    /\ IF inputSource = "image" /\ file.mime \notin VALID_IMAGE_TYPES
       THEN error' = INVALID_IMAGE /\ UNCHANGED uploadedFile
       ELSE IF inputSource = "pdf" /\ file.mime \notin VALID_PDF_TYPES
       THEN error' = INVALID_PDF /\ UNCHANGED uploadedFile
       ELSE uploadedFile' = file /\ error' = ""
    /\ UNCHANGED <<inputSource, textInput, geminiKey, openaiKey, isLoading, loadingStep,
                   captions, summary, run, regens, clock, clicks>>
    /\ UNCHANGED <<normVars, genVars, fbVars>>

\* the remove-file button of the file preview
RemoveFile ==
    /\ inputSource \in {"pdf", "image"}
    /\ uploadedFile # NoFile
    /\ uploadedFile' = NoFile
    /\ UNCHANGED <<inputSource, textInput, geminiKey, openaiKey, isLoading, loadingStep,
                   captions, error, summary, run, regens, clock, clicks>>
    /\ UNCHANGED <<normVars, genVars, fbVars>>

\* lines 264-275 with generateCaptions given geminiKey
ToGeneration_OtherKey(r, analysis, contentSummary) ==
    /\ summary' = contentSummary
    /\ loadingStep' = STEP_CRAFTING
    /\ run' = [r EXCEPT
                 !.pc = "awaitGPT",
                 !.analysis = analysis,
                 !.requests =
                     @ \o <<GptRequest("generate", DEFAULT_PLATFORM, contentSummary, <<>>,
                                       geminiKey)>>]

\* lines 264-275: the summary is stored and the generation request goes out
ToGeneration(r, analysis, contentSummary) ==
    /\ summary' = contentSummary
    /\ loadingStep' = STEP_CRAFTING
    /\ run' = [r EXCEPT
                 !.pc = "awaitGPT",
                 !.analysis = analysis,
                 !.requests =
                     @ \o <<GptRequest("generate", DEFAULT_PLATFORM, contentSummary, <<>>, openaiKey)>>]

\* lines 279-282: the catch of handleGenerate without its finally
FailRun_NoFinally(msg) ==
    /\ error' = msg
    /\ run' = NoRun
    /\ UNCHANGED <<isLoading, loadingStep>>

\* lines 279-286: the catch and the finally of handleGenerate
FailRun(msg) ==
    /\ error' = msg
    /\ isLoading' = FALSE
    /\ loadingStep' = ""
    /\ run' = NoRun

\* lines 252-262 with generateCaptions called without awaiting analyzeContent:
\* the generation request goes out together with the summarization request
AfterAnalyzeBegin_NoAwait(r, began) ==
    IF began.threw
    THEN IF r.inputSource = "text"
         THEN \E contentSummary \in FallbackSummaries(r.textInput) :
                  ToGeneration(r, Threw(began.msg), contentSummary)
         ELSE FailRun(COULD_NOT_ANALYZE) /\ summary' = NoSummary
    ELSE /\ summary' = NoSummary
         /\ loadingStep' = STEP_ANALYZING
         /\ run' = [r EXCEPT
                      !.pc = "awaitGemini",
                      !.requests =
                          began.request
                          \o <<GptRequest("generate", DEFAULT_PLATFORM, NoSummary, <<>>, openaiKey)>>]

\* lines 252-262, from the point where analyzeContent has thrown or has sent
\* its request
AfterAnalyzeBegin(r, began) ==
    IF began.threw
    THEN IF r.inputSource = "text"
         THEN \E contentSummary \in FallbackSummaries(r.textInput) :
                  ToGeneration(r, Threw(began.msg), contentSummary)
         ELSE FailRun(COULD_NOT_ANALYZE) /\ summary' = NoSummary
    ELSE /\ summary' = NoSummary
         /\ loadingStep' = STEP_ANALYZING
         /\ run' = [r EXCEPT !.pc = "awaitGemini", !.requests = began.request]

\* the Generate button (enabled unless isLoading or !canGenerate): handleGenerate
\* up to its first suspension.  A text input reaches the network, or the
\* fallback, without yielding to another event; a file is read first.
HandleGenerate ==
    /\ ~isLoading
    /\ CanGenerate
    /\ IF geminiKey = "" \/ openaiKey = ""
       THEN /\ error' = NEED_KEYS
            /\ UNCHANGED <<isLoading, loadingStep, captions, summary, run, clicks>>
       ELSE IF inputSource = "text" /\ Trim(textInput) = <<>>
       THEN /\ error' = NEED_TEXT
            /\ UNCHANGED <<isLoading, loadingStep, captions, summary, run, clicks>>
       ELSE IF inputSource \in {"pdf", "image"} /\ uploadedFile = NoFile
       THEN /\ error' = NeedFile(inputSource)
            /\ UNCHANGED <<isLoading, loadingStep, captions, summary, run, clicks>>
       ELSE LET input == IF inputSource = "text" THEN StringInput(textInput)
                         ELSE uploadedFile
                r == RunAt("reading", inputSource, textInput, input, <<>>)
            IN  /\ isLoading' = TRUE
                /\ error' = ""
                /\ captions' = <<>>
                /\ clicks' = clicks + 1
                /\ IF input.kind = "file"
                   THEN /\ summary' = NoSummary
                        /\ loadingStep' = STEP_ANALYZING
                        /\ run' = r
                   ELSE AfterAnalyzeBegin(r, AnalyzeBegin(input, inputSource, TRUE, geminiKey))
    /\ UNCHANGED <<inputSource, textInput, uploadedFile, geminiKey, openaiKey, regens, clock>>
    /\ UNCHANGED <<normVars, genVars, fbVars>>

\* the bytes of the file have been read (or the read has failed)
FileRead(readOk) ==
    /\ run.pc = "reading"
    /\ LET began == AnalyzeBegin(run.input, run.inputSource, readOk, geminiKey)
       IN  IF began.threw
           THEN FailRun(COULD_NOT_ANALYZE) /\ UNCHANGED summary
           ELSE /\ run' = [run EXCEPT !.pc = "awaitGemini", !.requests = began.request]
                /\ UNCHANGED <<error, isLoading, loadingStep, summary>>
    /\ UNCHANGED <<inputSource, textInput, uploadedFile, geminiKey, openaiKey, captions,
                   regens, clock, clicks>>
    /\ UNCHANGED <<normVars, genVars, fbVars>>

\* the summarization endpoint answers the run; handleGenerate without the
\* catch of lines 254-261: what analyzeContent throws ends the run
GeminiAnswer_NoFallback(ans) ==
    /\ run.pc = "awaitGemini"
    /\ \E outcome \in {GeminiResult(ans)} :
           IF outcome.kind = "error"
           THEN FailRun(outcome.msg) /\ UNCHANGED summary
           ELSE /\ ToGeneration(run, outcome, outcome.summary)
                /\ UNCHANGED <<error, isLoading>>
    /\ UNCHANGED <<inputSource, textInput, uploadedFile, geminiKey, openaiKey, captions,
                   regens, clock, clicks>>
    /\ UNCHANGED <<normVars, genVars, fbVars>>

\* the summarization endpoint answers the run
GeminiAnswer(ans) ==
    /\ run.pc = "awaitGemini"
    /\ \E outcome \in {GeminiResult(ans)} :
           IF outcome.kind = "error"
           THEN IF run.inputSource = "text"
                THEN /\ \E contentSummary \in FallbackSummaries(run.textInput) :
                            ToGeneration(run, outcome, contentSummary)
                     /\ UNCHANGED <<error, isLoading>>
                ELSE FailRun(COULD_NOT_ANALYZE) /\ UNCHANGED summary
           ELSE /\ ToGeneration(run, outcome, outcome.summary)
                /\ UNCHANGED <<error, isLoading>>
    /\ UNCHANGED <<inputSource, textInput, uploadedFile, geminiKey, openaiKey, captions,
                   regens, clock, clicks>>
    /\ UNCHANGED <<normVars, genVars, fbVars>>

\* the generation endpoint answers the run; generateCaptions sending its
\* request once more when the call has failed
GptAnswer_Retry(ans) ==
    /\ run.pc = "awaitGPT"
    /\ \E outcome \in {GptResult("generate", ans, clock)} :
           IF outcome.kind = "error"
           THEN /\ run' = [run EXCEPT !.requests = Append(@, @[Len(@)])]
                /\ UNCHANGED <<captions, error, isLoading, loadingStep>>
           ELSE /\ captions' = outcome.captions
                /\ isLoading' = FALSE
                /\ loadingStep' = ""
                /\ run' = NoRun
                /\ UNCHANGED error
    /\ UNCHANGED <<inputSource, textInput, uploadedFile, geminiKey, openaiKey, summary,
                   regens, clock, clicks>>
    /\ UNCHANGED <<normVars, genVars, fbVars>>

\* the generation endpoint answers the run, lines 269-286
GptAnswer(ans) ==
    /\ run.pc = "awaitGPT"
    /\ \E outcome \in {GptResult("generate", ans, clock)} :
           IF outcome.kind = "error"
           THEN FailRun(outcome.msg) /\ UNCHANGED captions
           ELSE /\ captions' = outcome.captions
                /\ isLoading' = FALSE
                /\ loadingStep' = ""
                /\ run' = NoRun
                /\ UNCHANGED error
    /\ UNCHANGED <<inputSource, textInput, uploadedFile, geminiKey, openaiKey, summary,
                   regens, clock, clicks>>
    /\ UNCHANGED <<normVars, genVars, fbVars>>

\* the closure of a handleRegenerate call suspended at its await; card: the
\* card whose button called it (the handler is given the id on that card)
RegenAt(card, captionIndex, updatedCaptions, existing) ==
    [card |-> card, captionIndex |-> captionIndex, updatedCaptions |-> updatedCaptions,
     existing |-> existing,
     requests |-> <<GptRequest("regenerate", DEFAULT_PLATFORM, summary, existing, openaiKey)>>]

\* the refresh button of a card (the cards are shown unless isLoading):
\* handleRegenerate up to its await, lines 336-355
HandleRegenerate(card) ==
    /\ ~isLoading
    /\ card \in 1..Len(captions)
    /\ IF summary = NoSummary
       THEN UNCHANGED <<captions, regens, clicks>>
       ELSE LET captionId == captions[card].id
                captionIndex == SetMin({i \in 1..Len(captions) : captions[i].id = captionId})
                updatedCaptions == [captions EXCEPT ![captionIndex].caption = PLACEHOLDER]
                existing == [i \in 1..Len(captions) |-> captions[i].caption]
            IN  /\ captions' = updatedCaptions
                /\ regens' = Append(regens, RegenAt(card, captionIndex, updatedCaptions, existing))
                /\ clicks' = clicks + 1
    /\ UNCHANGED <<inputSource, textInput, uploadedFile, geminiKey, openaiKey, isLoading,
                   loadingStep, error, summary, run, clock>>
    /\ UNCHANGED <<normVars, genVars, fbVars>>

Without(s, k) == SubSeq(s, 1, k - 1) \o SubSeq(s, k + 1, Len(s))

\* the generation endpoint answers the k-th suspended handleRegenerate,
\* lines 351-364
RegenAnswer(k, ans) ==
    /\ k \in 1..Len(regens)
    /\ \E outcome \in {GptResult("regenerate", ans, clock)} :
           IF outcome.kind = "error"
           THEN error' = REGEN_FAILED /\ UNCHANGED captions
           ELSE /\ captions' = [regens[k].updatedCaptions EXCEPT
                                  ![regens[k].captionIndex] = outcome.captions[1]]
                /\ UNCHANGED error
    /\ regens' = Without(regens, k)
    /\ UNCHANGED <<inputSource, textInput, uploadedFile, geminiKey, openaiKey, isLoading,
                   loadingStep, summary, run, clock, clicks>>
    /\ UNCHANGED <<normVars, genVars, fbVars>>

\* time passes: Date.now() advances by a millisecond
Tick ==
    /\ clock < MaxClock
    /\ clock' = clock + 1
    /\ UNCHANGED <<inputSource, textInput, uploadedFile, geminiKey, openaiKey, isLoading,
                   loadingStep, captions, error, summary, run, regens, clicks>>
    /\ UNCHANGED <<normVars, genVars, fbVars>>

(***************************************************************************)
(* The initial state and the specifications.                               *)
(***************************************************************************)
Init ==
    /\ nPc = "idle"
    /\ nInput = StringInput(<<>>)
    /\ nInputType = "text"
    /\ nContent = <<>>
    /\ nRequests = <<>>
    /\ nResponse = NoAnswer
    /\ nOutcome = NoOutcome
    /\ gPc = "idle"
    /\ gOp = "generate"
    /\ gRequests = <<>>
    /\ gResponse = NoAnswer
    /\ gNow = 0
    /\ gOutcome = NoCaptions
    /\ inputSource = "text"
    /\ textInput = <<>>
    /\ uploadedFile = NoFile
    /\ geminiKey = ""
    /\ openaiKey = ""
    /\ isLoading = FALSE
    /\ loadingStep = ""
    /\ captions = <<>>
    /\ error = ""
    /\ summary = NoSummary
    /\ run = NoRun
    /\ regens = <<>>
    /\ clock = 0
    /\ clicks = 0
    /\ fbPc = "idle"
    /\ fbText = <<>>
    /\ fbResult = NoSummary

\* the panel: the user's events, the answers of the endpoints, the clock
Next ==
    \/ \E source \in {"text", "pdf", "image"} : SelectTab(source)
    \/ \E text \in AppTexts : SetTextInput(text)
    \/ \E key \in AppGeminiKeys : SetGeminiKey(key)
    \/ \E key \in AppOpenaiKeys : SetOpenaiKey(key)
    \/ \E file \in AppFiles : HandleFileSelect(file)
    \/ RemoveFile
    \/ clicks < MaxClicks /\ HandleGenerate
    \/ \E readOk \in BOOLEAN : FileRead(readOk)
    \/ \E ans \in AppGeminiAnswers : GeminiAnswer(ans)
    \/ \E ans \in AppGptAnswers : GptAnswer(ans)
    \/ \E card \in 1..MaxCaptions : clicks < MaxClicks /\ HandleRegenerate(card)
    \/ \E k \in 1..MaxClicks, ans \in AppRegenAnswers : RegenAnswer(k, ans)
    \/ Tick

Spec == Init /\ [][Next]_vars

\* the panel where the user enters the keys and a text and from then on
\* clicks Generate and the refresh buttons of the cards only
CardsNext ==
    \/ \E text \in CardTexts : SetTextInput(text)
    \/ \E key \in AppGeminiKeys : SetGeminiKey(key)
    \/ \E key \in AppOpenaiKeys : SetOpenaiKey(key)
    \/ clicks < MaxCardClicks /\ HandleGenerate
    \/ \E ans \in AppGeminiAnswers : GeminiAnswer(ans)
    \/ \E ans \in AppGptAnswers : GptAnswer(ans)
    \/ \E card \in 1..MaxCaptions : clicks < MaxCardClicks /\ HandleRegenerate(card)
    \/ \E k \in 1..MaxCardClicks, ans \in AppRegenAnswers : RegenAnswer(k, ans)
    \/ Tick

SpecCards == Init /\ [][CardsNext]_vars

\* the panel where every awaited promise settles: the file is read or the
\* read fails, and each endpoint answers or the fetch rejects.  A run waits
\* at "reading" exactly while FileRead is enabled and at "awaitGemini"
\* exactly while GeminiAnswer is enabled, and only these two steps leave
\* the two positions, so that leaving them again and again is the weak
\* fairness of the two steps.
SpecLive ==
    /\ Init
    /\ [][Next]_vars
    /\ []<>(run.pc # "reading")
    /\ []<>(run.pc # "awaitGemini")
    /\ WF_vars(\E ans \in AppGptAnswers : GptAnswer(ans))

\* the normalizer on its own: calls of analyzeContent with any input
SpecNormalize == Init /\ [][NormNext]_vars

\* the generator on its own: calls of generateCaptions and regenerateSingleCaption
SpecGenerate == Init /\ [][GenNext]_vars

\* the local summarizer on its own: calls of createFallbackSummary
SpecFallback == Init /\ [][FallbackNext]_vars

(***************************************************************************)
(* Claims about the normalizer, checked under SpecNormalize.               *)
(***************************************************************************)
\* what JSON.parse made of the answer's text (undefined when it threw)
ParsedAnswer ==
    LET p == JSONParse(ExtractJsonStr(nResponse.text))
    IN  IF p.ok THEN p.v ELSE JUndef

IsTextCall == nPc # "idle" /\ nInputType = "text" /\ nInput.kind = "string"
IsPdfCall == nPc # "idle" /\ nInputType = "pdf" /\ nInput.kind = "file"

\* C1: a plain-text input whose trimmed length is below 10 makes analyzeContent
\* throw the validation error, and no outbound request has been issued for it.
C1_ShortTextFailsBeforeNetwork ==
    (IsTextCall /\ Len(Trim(nInput.text)) < MIN_TEXT_LENGTH)
        => /\ nPc = "done"
           /\ nOutcome = Threw(VALIDATION_ERROR)
           /\ nRequests = <<>>

\* a padded input: 10 characters or more, fewer than 10 once trimmed
C1_Witness ==
    /\ IsTextCall
    /\ Len(nInput.text) >= MIN_TEXT_LENGTH
    /\ Len(Trim(nInput.text)) \in 1..(MIN_TEXT_LENGTH - 1)
    /\ nOutcome = Threw(VALIDATION_ERROR)

\* C2: a PDF byte stream from which the heuristic extracts fewer than 50
\* characters makes the PDF path throw the extraction error, and the
\* summarization request is never issued.
C2_ThinPdfFailsBeforeNetwork ==
    (IsPdfCall /\ Len(ScanAndClean(nInput.bytes)) < MIN_PDF_TEXT)
        => /\ nPc = "done"
           /\ nOutcome = Threw(PDF_ERROR)
           /\ nRequests = <<>>

\* the scan found 50 characters or more, and fewer than 50 survive the clean-up
C2_Witness ==
    /\ IsPdfCall
    /\ Len(ScanBytes(nInput.bytes)) >= MIN_PDF_TEXT
    /\ Len(ScanAndClean(nInput.bytes)) \in 1..(MIN_PDF_TEXT - 1)
    /\ nOutcome = Threw(PDF_ERROR)

\* C3: every summary a normalization returns has at most 5 bulletPoints and at
\* most 10 keywords, whatever the model answered.
C3_SummaryClamped ==
    nOutcome.kind = "summary"
        => /\ Len(nOutcome.summary.bulletPoints) <= MAX_BULLET_POINTS
           /\ Len(nOutcome.summary.keywords) <= MAX_KEYWORDS

\* the model sent more than 5 bullet points and more than 10 keywords
C3_Witness ==
    /\ nOutcome.kind = "summary"
    /\ Len(Get(ParsedAnswer, K_bulletPoints).a) > MAX_BULLET_POINTS
    /\ Len(Get(ParsedAnswer, K_keywords).a) > MAX_KEYWORDS
    /\ Len(nOutcome.summary.bulletPoints) = MAX_BULLET_POINTS
    /\ Len(nOutcome.summary.keywords) = MAX_KEYWORDS

\* C4: every summary a normalization returns has between 1 and 5 bulletPoints.
C4_BulletsNeverEmpty ==
    nOutcome.kind = "summary"
        => Len(nOutcome.summary.bulletPoints) \in 1..MAX_BULLET_POINTS

\* JSON.parse threw on what the two regexes left of the answer's text
NotJson ==
    /\ nPc = "done"
    /\ nResponse.net = "ok"
    /\ nResponse.text # <<>>
    /\ ~JSONParse(ExtractJsonStr(nResponse.text)).ok

\* s is the first n characters of raw (all of raw when it has fewer)
IsCutOf(s, raw, n) ==
    /\ Len(s) = Min(Len(raw), n)
    /\ \A i \in 1..Len(s) : s[i] = raw[i]

\* C11: when JSON.parse throws on the model's response, the call does not
\* throw: it returns a summary whose mainIdea is the first 100 characters of
\* the raw response, whose one bullet point is its first 200 characters, and
\* whose keywords are empty.
C11_MalformedResponseFallsBack ==
    NotJson
        => LET raw == RenderText(nResponse.text)
               result == nOutcome.summary
           IN  /\ nOutcome.kind = "summary"
               /\ result.mainIdea.ty = "str"
               /\ IsCutOf(result.mainIdea.s, raw, MAIN_IDEA_FALLBACK)
               /\ Len(result.bulletPoints) = 1
               /\ result.bulletPoints[1].ty = "str"
               /\ IsCutOf(result.bulletPoints[1].s, raw, BULLET_FALLBACK)
               /\ result.keywords = <<>>

\* a response of more than 200 characters: both cuts shorten it
C11_Witness ==
    /\ NotJson
    /\ Len(RenderText(nResponse.text)) > BULLET_FALLBACK
    /\ Len(nOutcome.summary.mainIdea.s) = MAIN_IDEA_FALLBACK
    /\ Len(nOutcome.summary.bulletPoints[1].s) = BULLET_FALLBACK

\* the text opens and closes with a fence
IsFenced(text) ==
    /\ Len(text) >= 2
    /\ text[1] = FENCE
    /\ text[Len(text)] = FENCE

\* blanks at both ends removed
TrimWs(toks) ==
    LET inked == {i \in 1..Len(toks) : toks[i] # WS}
    IN  IF inked = {} THEN <<>> ELSE SubSeq(toks, SetMin(inked), SetMax(inked))

\* what stands between the two fences, the tag and the blanks taken off
Bare(text) ==
    LET inner == SubSeq(text, 2, Len(text) - 1)
    IN  TrimWs(IF inner # <<>> /\ Head(inner) = JSONTAG THEN Tail(inner) ELSE inner)

\* toks is one JSON object with a string mainIdea and arrays bulletPoints, keywords
IsSummaryJson(toks) ==
    /\ toks # <<>>
    /\ Head(toks) = LB
    /\ JSONParse(toks).ok
    /\ Get(JSONParse(toks).v, K_mainIdea).ty = "str"
    /\ IsArray(Get(JSONParse(toks).v, K_bulletPoints))
    /\ IsArray(Get(JSONParse(toks).v, K_keywords))

\* C12 (normalizer): when the response is a fenced code block around valid
\* JSON of the requested shape, the call returns what parsing the same JSON
\* without the fence returns.
C12_FencedSameAsBare ==
    (/\ nPc = "done"
     /\ nResponse.net = "ok"
     /\ IsFenced(nResponse.text)
     /\ IsSummaryJson(Bare(nResponse.text)))
        => nOutcome = Returned(ParseGeminiResponse(Bare(nResponse.text)))

(***************************************************************************)
(* Claims about the generator, checked under SpecGenerate.                 *)
(***************************************************************************)
\* what JSON.parse made of the answer's text (undefined when it threw)
ParsedGptAnswer ==
    LET p == JSONParse(ExtractJsonStr(gResponse.text))
    IN  IF p.ok THEN p.v ELSE JUndef

\* the entries of the model's response, one per result of a successful call
AnsweredEntries ==
    IF gOp = "generate"
    THEN IF IsArray(Get(ParsedGptAnswer, K_captions))
         THEN Get(ParsedGptAnswer, K_captions).a ELSE <<>>
    ELSE <<RegenEntry(ParsedGptAnswer)>>

Succeeded == gPc = "done" /\ gOutcome.kind = "captions"

\* the number of # characters a string starts with, and what follows them
LeadingHashes(h) ==
    LET other == {i \in 1..Len(h) : h[i] # "#"}
    IN  IF other = {} THEN Len(h) ELSE SetMin(other) - 1

AfterHashes(h) == SubSeq(h, LeadingHashes(h) + 1, Len(h))

\* the hashtag strings of the model's i-th entry (none unless it sent an array)
ModelTags(i) ==
    IF IsArray(Get(AnsweredEntries[i], K_hashtags))
    THEN Get(AnsweredEntries[i], K_hashtags).a ELSE <<>>

\* C5: in the results of generate and of regenerate, a hashtag the model sent
\* with one or more leading # has exactly one leading # fewer and is otherwise
\* the same; a hashtag the model sent without a leading # is unchanged.
C5_OneHashStripped ==
    Succeeded =>
        \A i \in 1..Len(gOutcome.captions) :
            /\ Len(gOutcome.captions[i].hashtags) = Len(ModelTags(i))
            /\ \A j \in 1..Len(ModelTags(i)) :
                  LET sent == ModelTags(i)[j].s
                      got == gOutcome.captions[i].hashtags[j].s
                  IN  IF LeadingHashes(sent) >= 1
                      THEN /\ LeadingHashes(got) = LeadingHashes(sent) - 1
                           /\ AfterHashes(got) = AfterHashes(sent)
                      ELSE got = sent

\* a call has returned a tag sent as "##a" with one # left
C5_Witness ==
    /\ Succeeded
    /\ \E i \in 1..Len(gOutcome.captions) : \E j \in 1..Len(ModelTags(i)) :
          /\ ModelTags(i)[j].s = <<"#", "#", "a">>
          /\ gOutcome.captions[i].hashtags[j].s = <<"#", "a">>

\* C6: no hashtag of a result of generate or regenerate starts with #,
\* whatever the model sent.
C6_NoHashPrefix ==
    Succeeded =>
        \A i \in 1..Len(gOutcome.captions) :
            \A j \in 1..Len(gOutcome.captions[i].hashtags) :
                LeadingHashes(gOutcome.captions[i].hashtags[j].s) = 0

\* C7: a successful generate returns exactly 3 results and a successful
\* regenerate exactly 1, however many entries the model sent.
C7_ThreeResultsOrOne ==
    Succeeded =>
        Len(gOutcome.captions) = IF gOp = "generate" THEN 3 ELSE 1

\* the answer is no JSON, or it lacks what the results are built from: the
\* captions array (generate), a caption or a first captions entry (regenerate)
Unparseable ==
    \/ ParsedGptAnswer = JUndef
    \/ ~CanRead(ParsedGptAnswer)
    \/ gOp = "generate" /\ ~IsArray(Get(ParsedGptAnswer, K_captions))
    \/ gOp = "regenerate" /\ ~CanRead(RegenEntry(ParsedGptAnswer))

\* C9: when the request fails (rejected, non-2xx, unreadable body, no
\* content) or the response cannot be parsed, generate and regenerate end
\* with an error and return no caption at all.
C9_FailureIsAnError ==
    (gPc = "done" /\ (gResponse.net # "ok" \/ gResponse.text = <<>> \/ Unparseable))
        => /\ gOutcome.kind = "error"
           /\ gOutcome.msg # ""
           /\ gOutcome.captions = <<>>

\* generate has failed on a 200 answer whose text is no JSON
C9_Witness ==
    /\ gPc = "done"
    /\ gOp = "generate"
    /\ gResponse.net = "ok"
    /\ gResponse.text # <<>>
    /\ ParsedGptAnswer = JUndef
    /\ gOutcome = GenThrew(PARSE_ERROR)

C8_IdsPairwiseDistinct ==
    \A i, j \in 1..Len(captions) :
        i # j => captions[i].id # captions[j].id


\* toks is one JSON object whose captions are an array of objects
IsCaptionsJson(toks) ==
    /\ toks # <<>>
    /\ Head(toks) = LB
    /\ JSONParse(toks).ok
    /\ IsArray(Get(JSONParse(toks).v, K_captions))
    /\ \A i \in 1..Len(Get(JSONParse(toks).v, K_captions).a) :
          Get(JSONParse(toks).v, K_captions).a[i].ty = "obj"

\* C12 (generator): when the response to generate is a fenced code block
\* around valid JSON of the requested shape, the call returns what it returns
\* for the same JSON without the fence.
C12_GeneratorFencedSameAsBare ==
    (/\ gPc = "done"
     /\ gOp = "generate"
     /\ gResponse.net = "ok"
     /\ IsFenced(gResponse.text)
     /\ IsCaptionsJson(Bare(gResponse.text)))
        => gOutcome = GptResult(gOp, [gResponse EXCEPT !.text = Bare(@)], gNow)


\* C18: a regeneration given the texts of 3 existing captions returns a
\* result whose caption differs from each of the 3 texts.
C18_RegeneratedDiffers ==
    (/\ gPc = "done"
     /\ gOp = "regenerate"
     /\ gOutcome.kind = "captions"
     /\ Len(gRequests[1].existing) = 3)
        => \A i \in 1..3 : gOutcome.captions[1].caption # gRequests[1].existing[i]

(***************************************************************************)
(* Claims about the local summarizer, checked under SpecFallback.          *)
(***************************************************************************)
\* where the sentences of a text end: at the last of a run of terminators
\* that something other than a terminator precedes
SentenceEnds(text) ==
    {j \in 1..Len(text) :
        /\ IsTerminator(text[j])
        /\ j = Len(text) \/ ~IsTerminator(text[j + 1])
        /\ \E i \in 1..j : ~IsTerminator(text[i])}

\* the k-th sentence: from the end of the one before (for the first, from
\* the first character that is no terminator) to its own end
Sentence(text, k) ==
    LET ends == Ascending(SentenceEnds(text))
        start == IF k = 1 THEN SetMin({i \in 1..Len(text) : ~IsTerminator(text[i])})
                 ELSE ends[k - 1] + 1
    IN  SubSeq(text, start, ends[k])

\* C13: for a text with at least 3 sentences, each ended by sentence
\* terminators, createFallbackSummary returns exactly 3 bullet points: the
\* first 3 sentences, in order, verbatim once trimmed.
C13_FirstThreeSentences ==
    (fbPc = "done" /\ Cardinality(SentenceEnds(fbText)) >= FALLBACK_SENTENCES)
        => /\ Len(fbResult.bulletPoints) = FALLBACK_SENTENCES
           /\ \A k \in 1..FALLBACK_SENTENCES :
                 fbResult.bulletPoints[k] = JStr(Trim(Sentence(fbText, k)))

\* a text of 4 sentences, the second of which begins with a blank
C13_Witness ==
    /\ fbPc = "done"
    /\ Cardinality(SentenceEnds(fbText)) > FALLBACK_SENTENCES
    /\ Trim(Sentence(fbText, 2)) # Sentence(fbText, 2)
    /\ Len(fbResult.bulletPoints) = FALLBACK_SENTENCES
    /\ fbResult.bulletPoints[2] = JStr(Trim(Sentence(fbText, 2)))

\* C14: the keywords createFallbackSummary returns are the 5 most frequent
\* lowercase tokens of at least 4 letters of the text (all of them when
\* there are fewer than 5), by falling frequency, equally frequent tokens
\* in the order of their first occurrence.
C14_KeywordsByFrequency ==
    fbPc = "done"
        => LET words == WordMatches(ToLowerCase(fbText))
               Outranks(j, i) ==
                   \/ Count(words, j) > Count(words, i)
                   \/ Count(words, j) = Count(words, i) /\ j < i
               Rank(i) == Cardinality({j \in Firsts(words) : Outranks(j, i)})
           IN  /\ Len(fbResult.keywords) = Min(Cardinality(Firsts(words)), FALLBACK_KEYWORDS)
               /\ \A k \in 1..Len(fbResult.keywords) :
                     \E i \in Firsts(words) :
                        /\ Rank(i) = k - 1
                        /\ fbResult.keywords[k] = JStr(words[i])


(***************************************************************************)
(* Claims about a Generate run of the panel, checked under Spec.           *)
(***************************************************************************)
\* the run waits for the generation endpoint: its last request is the
\* generation request, built from the summary the panel holds
RunGenerating ==
    /\ run.pc = "awaitGPT"
    /\ isLoading
    /\ run.requests # <<>>
    /\ run.requests[Len(run.requests)]
          = GptRequest("generate", DEFAULT_PLATFORM, summary, <<>>, openaiKey)

\* C15: in a run on plain text the step that ends the summarization always
\* leads on to generation and sets no error; when analyzeContent has thrown,
\* the summary the generation request is built from is createFallbackSummary
\* of the text.
C15_TextFallbackStillGenerates ==
    [][/\ (run.pc = "awaitGemini" /\ run.inputSource = "text" /\ run' # run)
            => /\ RunGenerating'
               /\ error' = error
               /\ run'.analysis.kind = "error"
                     => summary' \in FallbackSummaries(run.textInput)
       /\ (run.pc = "idle" /\ run' # run /\ run'.inputSource = "text")
            => \/ run'.pc = "awaitGemini"
               \/ /\ RunGenerating'
                  /\ error' = ""
                  /\ run'.analysis.kind = "error"
                  /\ summary' \in FallbackSummaries(textInput)]_vars

\* the fetch of the summarization request has failed, and the generation
\* request is out with the local summary of the text
C15_Witness ==
    /\ run.inputSource = "text"
    /\ run.analysis = Threw(FETCH_FAILED)
    /\ RunGenerating
    /\ Len(run.requests) = 2
    /\ summary \in FallbackSummaries(run.textInput)
    /\ summary.bulletPoints # <<>>
    /\ error = ""


\* the run on a file has ended in the retry-with-text error: nothing was sent
\* to the generation endpoint and no summary is held
FileRunFailed ==
    /\ run.pc = "idle"
    /\ error = COULD_NOT_ANALYZE
    /\ ~isLoading
    /\ summary = NoSummary

\* C16: in a run on a PDF or an image, the step that ends the normalization
\* either leads on (to the summarization request, or with the remote summary
\* to generation) or, when normalization has failed, ends the run with the
\* retry-with-text error: no local summary is made, no generation request
\* has been issued, and the caption list is empty.
C16_FileFailureEndsRun ==
    [][(/\ run.pc \in {"reading", "awaitGemini"}
        /\ run.inputSource \in {"pdf", "image"}
        /\ run' # run)
          => \/ run'.pc = "awaitGemini"
             \/ RunGenerating' /\ run'.analysis.kind = "summary"
             \/ /\ FileRunFailed'
                /\ \A i \in 1..Len(run.requests) : run.requests[i].endpoint # "openai"
                /\ captions' = <<>>]_vars


\* C17: a run has issued its generation request only when its call of
\* analyzeContent is over (it has returned, or it has thrown and the local
\* summary has taken its place); the request comes last, after the
\* summarization request if there is one, and carries the summary so
\* obtained.  While the summarization request is outstanding no generation
\* request has been issued.
C17_NormalizeBeforeGenerate ==
    /\ \A i \in 1..Len(run.requests) :
          run.requests[i].endpoint = "openai"
              => /\ run.pc = "awaitGPT"
                 /\ i = Len(run.requests)
                 /\ run.analysis.kind \in {"summary", "error"}
                 /\ run.analysis.kind = "summary"
                       => run.requests[i].summary = run.analysis.summary
                 /\ run.analysis.kind = "error"
                       => run.requests[i].summary \in FallbackSummaries(run.textInput)
    /\ run.pc \in {"reading", "awaitGemini"}
          => /\ run.analysis = NoOutcome
             /\ \A i \in 1..Len(run.requests) : run.requests[i].endpoint = "gemini"

\* the summarization request was answered with a summary, and the generation
\* request that follows it carries that summary
C17_Witness ==
    /\ run.pc = "awaitGPT"
    /\ Len(run.requests) = 2
    /\ run.requests[1].endpoint = "gemini"
    /\ run.requests[2].endpoint = "openai"
    /\ run.analysis.kind = "summary"
    /\ run.requests[2].summary = run.analysis.summary
    /\ run.analysis.summary.bulletPoints # <<>>


\* the requests among reqs that went to the given endpoint
RequestsTo(reqs, endpoint) == {i \in 1..Len(reqs) : reqs[i].endpoint = endpoint}

\* a Generate run has issued at most two requests, at most one to the
\* summarization endpoint and, after it, at most one to the generation
\* endpoint; a regeneration in flight has issued exactly one request
RequestsBounded ==
    /\ Len(run.requests) <= 2
    /\ Cardinality(RequestsTo(run.requests, "gemini")) <= 1
    /\ Cardinality(RequestsTo(run.requests, "openai")) <= 1
    /\ \A i \in RequestsTo(run.requests, "gemini"),
          j \in RequestsTo(run.requests, "openai") : i < j
    /\ \A k \in 1..Len(regens) :
          /\ Len(regens[k].requests) = 1
          /\ regens[k].requests[1].endpoint = "openai"
          /\ regens[k].requests[1].op = "regenerate"

\* the step that answers the generation request ends the run, with captions
\* or with an error; the step that answers a regeneration ends that call
AnswerEndsCall ==
    /\ (run.pc = "awaitGPT" /\ run' # run)
          => /\ run' = NoRun
             /\ ~isLoading'
             /\ (captions' = captions /\ error' # "") \/ (captions' # <<>> /\ error' = error)
    /\ regens' # regens
          => \/ Len(regens') = Len(regens) + 1 /\ run' = run
             \/ Len(regens') = Len(regens) - 1 /\ run' = run

\* C19: a Generate run issues at most two requests, one to the summarization
\* endpoint and then at most one to the generation endpoint, and a
\* regeneration exactly one; no request is sent a second time, and the step
\* in which a call's request is answered ends that call, with its result or
\* with the error.
C19_AtMostTwoRequests == []RequestsBounded /\ [][AnswerEndsCall]_vars

\* a run that has issued both its requests, beside a regeneration in flight
C19_Witness ==
    /\ run.pc = "awaitGPT"
    /\ Len(run.requests) = 2
    /\ run.requests[1].endpoint = "gemini"
    /\ run.requests[2].endpoint = "openai"
    /\ regens # <<>>
    /\ Len(regens[1].requests) = 1


\* C20: when analyzeContent has thrown the validation error in a run (the
\* text is under 10 characters once trimmed), the run ends with that
\* message, verbatim, as the error shown.
C20_ValidationErrorShown ==
    [][(run.analysis = Threw(VALIDATION_ERROR) /\ run'.pc = "idle")
          => error' = VALIDATION_ERROR]_vars

(***************************************************************************)
(* Claims about answers that are not ok, checked under SpecNormalize.      *)
(***************************************************************************)
NotOk(ans) == ans.net \in {"http", "httpNull"}

\* C21: when the summarization endpoint has answered with a status that is
\* not 2xx, the call has thrown, no summary is returned, and the message is
\* the error message of the body when there is one and the generic
\* "Gemini API error: <status>" otherwise.
C21_NonOkMessage ==
    (nPc = "done" /\ NotOk(nResponse)) =>
        nOutcome = Threw(IF nResponse.errMsg # "" THEN nResponse.errMsg
                         ELSE "Gemini API error: " \o ToString(nResponse.status))

(***************************************************************************)
(* Claims about the keys, checked under Spec.                              *)
(***************************************************************************)
\* the requests that have gone out and are not answered yet, with those the
\* current run has sent before
SentRequests ==
    {run.requests[i] : i \in 1..Len(run.requests)}
    \cup {regens[k].requests[1] : k \in 1..Len(regens)}

\* C22: every request to the summarization endpoint carries the key of the
\* summarization field and not the generation key; every request to the
\* generation endpoint carries the key of the generation field and not the
\* summarization key.
C22_KeysStayWithTheirService ==
    \A req \in SentRequests :
        /\ req.endpoint = "gemini" =>
              req.key \in AppGeminiKeys /\ req.key \notin AppOpenaiKeys
        /\ req.endpoint = "openai" =>
              req.key \in AppOpenaiKeys /\ req.key \notin AppGeminiKeys

\* a run has sent to both endpoints while a regeneration is in flight
C22_Witness ==
    /\ \E req \in SentRequests : req.endpoint = "gemini" /\ req.key = geminiKey
    /\ \E req \in SentRequests :
          req.endpoint = "openai" /\ req.op = "generate" /\ req.key = openaiKey
    /\ regens # <<>>
    /\ geminiKey # openaiKey

(***************************************************************************)
(* Claims about the cards, checked under SpecCards.                        *)
(***************************************************************************)
\* the caption list as it was when the suspended call r was made
ListAtRequest(r) ==
    [r.updatedCaptions EXCEPT ![r.captionIndex].caption = r.existing[r.captionIndex]]

\* the generation endpoint answers the k-th suspended call with a caption
RegenSucceeds(k, ans) ==
    /\ RegenAnswer(k, ans)
    /\ GptResult("regenerate", ans, clock).kind = "captions"

\* C23: when a regeneration asked for on a card succeeds, the list shown is
\* the list as it was at the request with the new CaptionResult in the place
\* of that card: same length, same order, every other element untouched.
C23_ReplacesExactlyTheCard ==
    [][\A k \in 1..Len(regens) : \A ans \in AppRegenAnswers :
          RegenSucceeds(k, ans) =>
              captions' = [ListAtRequest(regens[k]) EXCEPT
                              ![regens[k].card] =
                                  GptResult("regenerate", ans, clock).captions[1]]]_vars

(***************************************************************************)
(* Claims about the PDF heuristic, checked under SpecNormalize.            *)
(***************************************************************************)
\* the maximal runs of printable bytes that are longer than 3, in order, each
\* followed by one space
LongRuns(bytes) ==
    LET n == Len(bytes)
        starts == {i \in 1..n : IsPrintable(bytes[i]) /\ (i = 1 \/ ~IsPrintable(bytes[i - 1]))}
        EndOf(i) == SetMin({j \in i..n : j = n \/ ~IsPrintable(bytes[j + 1])})
        long == Ascending({i \in starts : EndOf(i) - i + 1 > MIN_RUN_EXCLUSIVE})
    IN  [k \in 1..Len(long) |->
            [j \in 1..(EndOf(long[k]) - long[k] + 1) |-> FromCharCode(bytes[long[k] + j - 1])]
            \o <<" ">>]

\* the text of the statement: the long runs joined by single spaces, cleaned
TextOfLongRuns(bytes) == Trim(StripUnsafe(CollapseSpaces(Flatten(LongRuns(bytes)))))

\* C24: the text extracted from a PDF is made of every maximal run of
\* printable bytes longer than 3, a run that reaches the end of the stream
\* included, joined by single spaces and cut to 3000 characters: that text is
\* what the request carries, and the call throws only when it is under 50.
C24_EveryLongRunKept ==
    (IsPdfCall /\ nPc # "idle") =>
        IF Len(TextOfLongRuns(nInput.bytes)) < MIN_PDF_TEXT
        THEN nOutcome = Threw(PDF_ERROR)
        ELSE /\ nRequests # <<>>
             /\ nRequests[1].content = Slice0(TextOfLongRuns(nInput.bytes), MAX_PDF_TEXT)

(***************************************************************************)
(* Claims about regenerations of the panel, checked under Spec.            *)
(***************************************************************************)
\* the generation endpoint fails the k-th suspended call
RegenFails(k, ans) ==
    /\ RegenAnswer(k, ans)
    /\ GptResult("regenerate", ans, clock).kind = "error"

\* C25: when a regeneration fails, the list shown afterwards is the list as
\* it was before the regeneration was asked for: the card has its caption
\* again, not the placeholder.
C25_FailureRestoresList ==
    [][\A k \in 1..Len(regens) : \A ans \in AppRegenAnswers :
          RegenFails(k, ans) => captions' = ListAtRequest(regens[k])]_vars


\* the card holds a caption a regeneration has returned
HoldsRegenerated(list, c) ==
    /\ c \in 1..Len(list)
    /\ list[c].id.tag = "regen"
    /\ list[c].caption # PLACEHOLDER

\* C26: of two regenerations in flight together for two cards, the one that
\* succeeds last leaves on the other card the caption the other one has put
\* there, and puts its own caption on its own card: both cards end with
\* their new captions, none with the placeholder or the caption of before.
C26_BothCardsKeepTheirNewCaption ==
    [][\A k \in 1..Len(regens) : \A ans \in AppRegenAnswers :
          RegenSucceeds(k, ans) =>
              \A c \in 1..Len(captions) :
                  ( /\ c # regens[k].card
                    /\ HoldsRegenerated(captions, c)
                    /\ ~HoldsRegenerated(regens[k].updatedCaptions, c) )
                  => /\ HoldsRegenerated(captions', c)
                     /\ HoldsRegenerated(captions', regens[k].card)]_vars


\* C27: a regeneration answered while a Generate run is loading was asked for
\* before that run started (the cards are not shown while loading); its
\* answer is ignored: the list the run has cleared stays as it is.
C27_StaleRegenerationIgnored ==
    [][\A k \in 1..Len(regens) : \A ans \in AppRegenAnswers :
          (RegenSucceeds(k, ans) /\ isLoading) => captions' = captions]_vars


\* C28: whenever the panel holds captions it holds the summary they were
\* generated from: the list is empty while the summary is null.
C28_CaptionsHaveTheirSummary ==
    captions # <<>> => summary # NoSummary

(***************************************************************************)
(* Claims about the end of a run, checked under SpecLive.                  *)
(***************************************************************************)
\* C29: a Generate run that has passed the input validation has set the
\* loading flag; when every awaited call settles, the flag is cleared again,
\* whether the run ends with captions, through the text fallback, or in an
\* error.
C29_LoadingEventuallyCleared ==
    isLoading ~> ~isLoading

\* a run has ended in an error after the summarization of a file failed
C29_Witness ==
    /\ clicks > 0
    /\ ~isLoading
    /\ run = NoRun
    /\ error = COULD_NOT_ANALYZE


(***************************************************************************)
(* Claims about the held file and the selected tab, checked under Spec.    *)
(***************************************************************************)
\* a file of this type may be held under this input source
FitsSource(file, source) ==
    CASE source = "text" -> file = NoFile
      [] source = "pdf" -> file = NoFile \/ file.mime \in VALID_PDF_TYPES
      [] source = "image" -> file = NoFile \/ file.mime \in VALID_IMAGE_TYPES

\* C30: after any tab switches, file selections and file removals the held
\* file has a type that is valid for the selected input source, and no file
\* is held under "text"; and the input a run hands to analyzeContent is a
\* file of the type of the inputType it hands over with it (a string for
\* "text"), also when the tab is switched while the run is under way.
C30_HeldFileFitsItsSource ==
    /\ FitsSource(uploadedFile, inputSource)
    /\ run.pc # "idle" =>
           /\ (run.input.kind = "file") <=> (run.inputSource # "text")
           /\ run.input.kind = "file" =>
                  /\ run.input # NoFile
                  /\ FitsSource(run.input, run.inputSource)

\* a run started with a PDF is under way, and the user has since switched to
\* the image tab and selected an image there
C30_Witness ==
    /\ run.pc # "idle"
    /\ run.inputSource = "pdf"
    /\ run.input.mime \in VALID_PDF_TYPES
    /\ inputSource = "image"
    /\ uploadedFile # NoFile
    /\ uploadedFile.mime \in VALID_IMAGE_TYPES

=============================================================================
